---- MODULE Spec2Model ----
(***************************************************************************)
(* Verification model of Augment-BYOK.                                     *)
(*                                                                         *)
(* The parts of the program are modelled one by one, each with its own     *)
(* variables and its own next-state relation, among them:                  *)
(*   - the runtime shim (maybeHandleCallApi / maybeHandleCallApiStream),   *)
(*   - the self-test harness driven from the config panel                  *)
(*     (createHandlers.runSelfTest / cancelSelfTest, runSelfTest,          *)
(*     selfTestProvider),                                                  *)
(*   - the real-tool round-trip probe (realToolsToolRoundtripByProvider),  *)
(*   - the chat stream with its injections of official context and the     *)
(*     canvas cache, /get-models and mergeModels,                          *)
(*   - the tool calls of selfTestToolsModelExec,                           *)
(*   - the configuration the config panel's webview sends.                 *)
(* Asynchronous functions are cut at their awaits: one action runs the     *)
(* code from one suspension point to the next.                             *)
(***************************************************************************)
EXTENDS Integers, Sequences, FiniteSets, TLC

VARIABLES
  \* ---- runtime shim ----
  runtimeEnabled,   \* state.runtimeEnabled
  cfg,              \* cfgMgr.get(): routing rules and telemetry.disabledEndpoints
  hsCache,          \* conversation ids held by the history-summary cache
  shimCall,         \* what the last handler invocation did and returned
  \* ---- config panel host and self-test harness ----
  selfTestRunning,    \* createHandlers: let selfTestRunning
  selfTestController, \* createHandlers: let selfTestController ("null", "live", "aborted")
  stPc,               \* the await at which the run is suspended
  stRun,              \* the run's locals: providers, current index, tool definitions, ...
  report,             \* runSelfTest: const report
  entry,              \* selfTestProvider: const entry (of the provider being probed)
  capturedTools,      \* config/state: the last captured tool-definition set is non-empty
  panel,              \* messages posted to the webview since the last run started
  \* ---- real-tool round-trip probe ----
  rtPc,               \* the await at which realToolsToolRoundtripByProvider is suspended
  rtIn,               \* its inputs: the number of tools, the abort signal
  rtBi,               \* bi, the batch being processed (1-based)
  rtAcc,              \* callFailed, calledOk, metaMismatches, roundtripFailed, roundtripOk
  rtTurn,             \* the batch in progress (at the end: the last one): res1's nodes, req2's result nodes
  rtResult,           \* what the probe returned, and the test selfTestProvider recorded
  \* ---- tool-definition lists ----
  tdPc,               \* "idle", or "captured" once a tool-definition set is held
  tdDefs,             \* config/state: the last captured tool definitions
  tdOut,              \* what the consumer that ran last worked on and reported
  \* ---- strict-schema validation ----
  ssIn,               \* the schema handed to the validator: its objects, the root is ssIn[1]
  ssOut,              \* the validator's issues array when it returned
  ssTest,             \* a schema test of the self-test: its converted tools and what it recorded
  \* ---- schema samples ----
  sjIn,               \* the schema handed to sampleJsonFromSchema: its objects, the root is sjIn[1]
  sjOut,              \* the value it returned
  \* ---- model discovery ----
  mdPc,               \* "idle", "fetch" (a request of fetchModelsWithFallback is awaited), "done"
  md,                 \* fetchModelsWithFallback: the urls, the one awaited, tried, and the responses so far
  mdResult,           \* what fetchProviderModels returned or threw
  \* ---- the model of a provider's probes ----
  pmPc,               \* "idle", "models" (fetchProviderModels is awaited), "calls", "done"
  pm,                 \* selfTestProvider: provider, entry.model, the call site, the calls issued
  \* ---- the scratch directory of the tool execution probe ----
  scPc,               \* "idle", "ensureDir", "steps", "finally", "returned", "propagated"
  sc,                 \* selfTestToolsModelExec: scratch directory, tool results, removal, outcome
  \* ---- the collection of a chat stream ----
  ccPc,               \* "idle", "loop" (inside for await), "returned"
  cc,                 \* collectChatStream: what the generator yielded, and chunks, nodes, text, stop_reason
  \* ---- the request path of a chat stream ----
  csPc,               \* "idle", or the await byokChatStream is at, or "done"
  cs,                 \* the request and what its handler did
  CONTEXT_CANVAS_CACHE, \* shim.js 750: the canvases cached, each with the request that wrote it
  lastCaptured,       \* the tool definitions captured last, 0 for none
  csServed,           \* requests handled so far
  \* ---- the deadlines of sub-calls ----
  dl,                 \* the timeoutMs a caller passed and the deadlines handed on
  \* ---- the tool definitions of a self-test run ----
  gpPc,               \* "idle" or "fetchFromUpstream"
  gp,                 \* the global phase of the run started last
  gpCaptured,         \* the last captured tool definitions
  \* ---- the events of a self-test run ----
  evPc,               \* "idle" or "running"
  ev,                 \* the events of the run started last
  \* ---- the search for the tools model ----
  ft,                 \* the call of findToolsModelDeep made last and its search
  \* ---- /get-models and mergeModels ----
  gm,                 \* the /get-models or mergeModels call made last and its result
  \* ---- the tool calls of selfTestToolsModelExec ----
  tePc,               \* where selfTestToolsModelExec is
  te,                 \* its captured tool names, the results recorded and the call made last
  \* ---- the injections of official context ----
  inPc,               \* which injection of a chat request is next
  inj,                \* the request, its node arrays before the last injection, and what the injections returned
  \* ---- the cache of context canvases ----
  cvPc,               \* where the lookup of a canvas is
  clock,              \* Date.now()
  canvasCache,        \* the entry of CONTEXT_CANVAS_CACHE for the completion URL
  cv,                 \* the lookup made last
  \* ---- the configuration the webview sends ----
  wv                  \* the configuration of the panel page, its edits and the configuration just sent

shimVars == <<runtimeEnabled, cfg, hsCache, shimCall>>

stVars == <<selfTestRunning, selfTestController, stPc, stRun, report, entry,
            capturedTools, panel>>

rtVars == <<rtPc, rtIn, rtBi, rtAcc, rtTurn, rtResult>>

tdVars == <<tdPc, tdDefs, tdOut>>

ssVars == <<ssIn, ssOut, ssTest>>

sjVars == <<sjIn, sjOut>>

mdVars == <<mdPc, md, mdResult>>

pmVars == <<pmPc, pm>>

scVars == <<scPc, sc>>

ccVars == <<ccPc, cc>>

csVars == <<csPc, cs, CONTEXT_CANVAS_CACHE, lastCaptured, csServed>>

dlVars == <<dl>>

gpVars == <<gpPc, gp, gpCaptured>>

evVars == <<evPc, ev>>

ftVars == <<ft>>

gmVars == <<gm>>

teVars == <<tePc, te>>

inVars == <<inPc, inj>>

cvVars == <<cvPc, clock, canvasCache, cv>>

wvVars == <<wv>>

(***************************************************************************)
(* Runtime shim                                                            *)
(***************************************************************************)

\* Normalised endpoint names a request can carry ("" is what normalizeEndpoint
\* yields for a missing endpoint).
Endpoints == {"/get-models", "/completion", "/chat-stream", "/delete-conversation"}

EndpointInputs == Endpoints \cup {""}

ConvIds == {"c1", "c2"}

\* byokChatStream runs three official-context injections, each making at most
\* one request here.
MaxInjections == 3

RuleModes == {"none", "official", "byok", "disabled"}

\* Endpoints a configuration may list in telemetry.disabledEndpoints.
TelemetryCandidates == {"/completion", "/chat-stream"}

\* Bound: how many endpoints carry an explicit routing rule at a time.
MaxRules == 1

RuleCount(rules) == Cardinality({e \in Endpoints : rules[e] # "none"})

defaultConfig == [rules |-> [e \in Endpoints |-> "none"], telemetry |-> {}]

CallApiByokEndpoints == {"/get-models", "/completion"}

CallApiStreamByokEndpoints == {"/chat-stream"}

\* lower.includes("delete") || includes("remove") || includes("archive")
EndpointNamesDeletion(ep) == ep \in {"/delete-conversation"}

\* if (!state.runtimeEnabled) return undefined;
RuntimeGateClosed_Open(enabled) == FALSE

RuntimeGateClosed(enabled) == ~enabled

isTelemetryDisabled(c, ep) == ep \in c.telemetry

\* core/router decideRoute: official when the runtime is disabled; otherwise the
\* explicit per-endpoint rule, official when there is none.
decideRoute(c, ep, enabled) ==
  IF ~enabled THEN [mode |-> "official", reason |-> "runtime_disabled"]
  ELSE IF c.rules[ep] = "disabled" THEN [mode |-> "disabled", reason |-> "rule"]
  ELSE IF c.rules[ep] = "byok" THEN [mode |-> "byok", reason |-> "rule"]
  ELSE IF c.rules[ep] = "official" THEN [mode |-> "official", reason |-> "rule"]
  ELSE [mode |-> "official", reason |-> "default"]

\* maybeDeleteHistorySummaryCacheForEndpoint: the cache after the call.
\* deleteHistorySummaryCache may fail (failed = TRUE), which is ignored.
CacheAfterMaybeDelete(cache, ep, conv, failed) ==
  IF ep = "" \/ ~EndpointNamesDeletion(ep) \/ conv = "" \/ failed
    THEN cache
    ELSE cache \ {conv}

NoCall == [handler |-> "none", ep |-> "", conv |-> "", transformThrows |-> FALSE,
           deleteFailed |-> FALSE, result |-> "none", routed |-> FALSE,
           adapterCalls |-> 0, officialCalls |-> 0, cacheBefore |-> {}]

\* safeTransform(transform, {}, "disabled:ep") with the catch of lines 495-499.
DisabledStubResult_Rethrow(transformThrows) ==
  IF transformThrows THEN "throws" ELSE "transform_of_empty"

DisabledStubResult(transformThrows) ==
  IF transformThrows THEN "empty_object" ELSE "transform_of_empty"

\* safeTransform(transform, {}, "telemetry:ep") with the catch of lines 482-487.
TelemetryStubResult(transformThrows) ==
  IF transformThrows THEN "undefined" ELSE "transform_of_empty"

InitShim ==
  /\ runtimeEnabled = TRUE
  /\ cfg = defaultConfig
  /\ hsCache = {}
  /\ shimCall = NoCall

\* part_000 createHandlers.enableRuntime / disableRuntime
enableRuntime ==
  /\ ~runtimeEnabled
  /\ runtimeEnabled' = TRUE
  /\ shimCall' = NoCall
  /\ UNCHANGED <<cfg, hsCache>>

disableRuntime ==
  /\ runtimeEnabled
  /\ runtimeEnabled' = FALSE
  /\ shimCall' = NoCall
  /\ UNCHANGED <<cfg, hsCache>>

\* part_000 createHandlers.save, for a configuration edited in one place: the
\* rule of one endpoint, or one entry of telemetry.disabledEndpoints.
save ==
  \/ \E e \in Endpoints, m \in RuleModes :
       LET rules == [cfg.rules EXCEPT ![e] = m] IN
       /\ m # cfg.rules[e]
       /\ RuleCount(rules) <= MaxRules
       /\ cfg' = [cfg EXCEPT !.rules = rules]
       /\ shimCall' = NoCall
       /\ UNCHANGED <<runtimeEnabled, hsCache>>
  \/ \E e \in TelemetryCandidates :
       /\ cfg' = [cfg EXCEPT !.telemetry =
                    IF e \in cfg.telemetry THEN cfg.telemetry \ {e} ELSE cfg.telemetry \cup {e}]
       /\ shimCall' = NoCall
       /\ UNCHANGED <<runtimeEnabled, hsCache>>

\* A handler that takes every endpoint for /completion
CallApiByok_AnyEndpoint(ep, transformThrows, upstreamOk) ==
  [result |-> IF ~upstreamOk \/ transformThrows THEN "throws" ELSE "byok",
   adapterCalls |-> 1, officialCalls |-> 0]

\* The part of maybeHandleCallApi after the route is known to be byok.
\* upstreamOk: the provider adapter (the official get-models fetch for
\* /get-models) answered.
CallApiByok(ep, transformThrows, upstreamOk) ==
  IF ep = "/get-models" THEN
    [result |-> IF transformThrows THEN "throws"
                ELSE IF upstreamOk THEN "models_merged" ELSE "models_local",
     adapterCalls |-> 0, officialCalls |-> 1]
  ELSE IF ep = "/completion" THEN
    [result |-> IF ~upstreamOk \/ transformThrows THEN "throws" ELSE "byok",
     adapterCalls |-> 1, officialCalls |-> 0]
  ELSE [result |-> "undefined", adapterCalls |-> 0, officialCalls |-> 0]

\* The inputs that make no difference on a path are held at one value there.
DeletionApplies(ep, conv) == ep # "" /\ EndpointNamesDeletion(ep) /\ conv # ""

maybeHandleCallApi ==
  \E ep \in EndpointInputs, conv \in ConvIds \cup {""}, transformThrows \in BOOLEAN,
     upstreamOk \in BOOLEAN, deleteFailed \in BOOLEAN :
    LET base == [handler |-> "callApi", ep |-> ep, conv |-> conv,
                 transformThrows |-> transformThrows, deleteFailed |-> deleteFailed,
                 result |-> "undefined", routed |-> FALSE, adapterCalls |-> 0,
                 officialCalls |-> 0, cacheBefore |-> hsCache]
        byok == /\ ep # ""
                /\ ~RuntimeGateClosed(runtimeEnabled)
                /\ ~isTelemetryDisabled(cfg, ep)
                /\ decideRoute(cfg, ep, runtimeEnabled).mode = "byok"
                /\ ep \in CallApiByokEndpoints
    IN
    /\ deleteFailed => DeletionApplies(ep, conv)
    /\ ~upstreamOk => byok
    /\ hsCache' = CacheAfterMaybeDelete(hsCache, ep, conv, deleteFailed)
    /\ UNCHANGED <<runtimeEnabled, cfg>>
    /\ shimCall' =
         IF ep = "" THEN base
         ELSE IF RuntimeGateClosed(runtimeEnabled) THEN base
         ELSE IF isTelemetryDisabled(cfg, ep)
           THEN [base EXCEPT !.result = TelemetryStubResult(transformThrows)]
         ELSE LET route == decideRoute(cfg, ep, runtimeEnabled) IN
           IF route.mode = "official" THEN [base EXCEPT !.routed = TRUE]
           ELSE IF route.mode = "disabled"
             THEN [base EXCEPT !.routed = TRUE, !.result = DisabledStubResult(transformThrows)]
           ELSE IF route.mode # "byok" THEN [base EXCEPT !.routed = TRUE]
           ELSE LET b == CallApiByok(ep, transformThrows, upstreamOk) IN
             [base EXCEPT !.routed = TRUE, !.result = b.result,
                          !.adapterCalls = b.adapterCalls, !.officialCalls = b.officialCalls]

\* emptyAsyncGenerator() for a disabled route (line 643).
DisabledStreamResult == "empty_stream"

\* maybeHandleCallApiStream, with the stream it returns consumed by the caller:
\* for /chat-stream byokChatStream runs; the history compactor may cache a
\* summary of the conversation (summarised), the official-context injections
\* make their requests, the adapter streams or fails, a failure becoming an
\* error chunk of the guarded stream.
maybeHandleCallApiStream ==
  \E ep \in EndpointInputs, conv \in ConvIds \cup {""}, upstreamOk \in BOOLEAN,
     summarised \in BOOLEAN, deleteFailed \in BOOLEAN, injections \in 0..MaxInjections :
    LET cache1 == CacheAfterMaybeDelete(hsCache, ep, conv, deleteFailed)
        base == [handler |-> "callApiStream", ep |-> ep, conv |-> conv,
                 transformThrows |-> FALSE, deleteFailed |-> deleteFailed,
                 result |-> "undefined", routed |-> FALSE, adapterCalls |-> 0,
                 officialCalls |-> 0, cacheBefore |-> hsCache]
        route == decideRoute(cfg, ep, runtimeEnabled)
        byokChat == /\ ep # ""
                    /\ ~RuntimeGateClosed(runtimeEnabled)
                    /\ route.mode = "byok"
                    /\ ~isTelemetryDisabled(cfg, ep)
                    /\ ep \in CallApiStreamByokEndpoints
    IN
    /\ deleteFailed => DeletionApplies(ep, conv)
    /\ ~upstreamOk => byokChat
    /\ summarised => byokChat /\ conv # ""
    /\ injections > 0 => byokChat
    /\ hsCache' = IF summarised THEN cache1 \cup {conv} ELSE cache1
    /\ UNCHANGED <<runtimeEnabled, cfg>>
    /\ shimCall' =
         IF ep = "" THEN base
         ELSE IF RuntimeGateClosed(runtimeEnabled) THEN base
         ELSE IF route.mode = "official" THEN [base EXCEPT !.routed = TRUE]
         ELSE IF route.mode = "disabled"
           THEN [base EXCEPT !.routed = TRUE, !.result = DisabledStreamResult]
         ELSE IF route.mode # "byok" THEN [base EXCEPT !.routed = TRUE]
         ELSE IF isTelemetryDisabled(cfg, ep)
           THEN [base EXCEPT !.routed = TRUE, !.result = "empty_stream"]
         ELSE IF ep \in CallApiStreamByokEndpoints
           THEN [base EXCEPT !.routed = TRUE,
                             !.result = IF upstreamOk THEN "byok_stream" ELSE "error_chunk_stream",
                             !.adapterCalls = 1, !.officialCalls = injections]
         ELSE [base EXCEPT !.routed = TRUE]

(***************************************************************************)
(* Config panel host (createHandlers) and self-test harness (runSelfTest,  *)
(* selfTestProvider)                                                       *)
(***************************************************************************)

\* Bound: configured providers of a run.
MaxProviders == 2

\* Bound: how many things of one run deviate from the nominal run, in which
\* every provider is fully configured with a local model, every step answers
\* as hoped and nobody cancels: a provider of another kind, an outcome other
\* than "ok", a cancellation.
MaxDeviations == 1

\* A provider as selfTestProvider and runSelfTest read it:
\*   configOk   - type, baseUrl and a credential are present (line 911)
\*   localModel - defaultModel or models[] names a model (lines 454-458)
ProviderKinds == [configOk : BOOLEAN, localModel : BOOLEAN]

NominalProvider == [configOk |-> TRUE, localModel |-> TRUE]

RECURSIVE ProviderLists(_)
ProviderLists(n) ==
  IF n = 0 THEN {<<>>}
  ELSE ProviderLists(n - 1) \cup
       {Append(l, k) : l \in {x \in ProviderLists(n - 1) : Len(x) = n - 1}, k \in ProviderKinds}

NonNominal(l) == Cardinality({i \in 1..Len(l) : l[i] # NominalProvider})

Test(name, ok) == [name |-> name, ok |-> ok]

EmptyReport == [ok |-> TRUE, global |-> <<>>, providers |-> <<>>, finished |-> FALSE]

NoEntry == [providerId |-> 0, tests |-> <<>>, ok |-> TRUE]

NoRun == [providers |-> <<>>, idx |-> 0, toolDefs |-> FALSE, deviations |-> 0,
          stopOther |-> FALSE, hs1 |-> FALSE, aborted |-> FALSE]

NoPanel == [posts |-> <<>>, status |-> {}]

\* selfTestProvider.record (lines 894-904)
record(e, t) ==
  [e EXCEPT !.tests = Append(@, t), !.ok = IF t.ok = FALSE THEN FALSE ELSE @]

\* report.global.tests.push(...) followed by "if (!ok) report.ok = false"
PushGlobal(rep, name, ok) ==
  [rep EXCEPT !.global = Append(@, Test(name, ok)), !.ok = IF ~ok THEN FALSE ELSE @]

\* report.providers.push(res); if (!res.ok) report.ok = false (lines 1421-1423)
PushProvider_KeepOk(rep, e) == [rep EXCEPT !.providers = Append(@, e)]

PushProvider(rep, e) ==
  [rep EXCEPT !.providers = Append(@, e), !.ok = IF ~e.ok THEN FALSE ELSE @]

Aborted == selfTestController = "aborted"

\* The outcomes of a call that is handed the abort signal (a provider adapter,
\* the upstream tools model).  With the signal aborted the call throws;
\* otherwise it answers, answers with nothing usable, or throws.
SignalledOutcomes ==
  IF Aborted THEN {"throws"}
  ELSE IF stRun.deviations < MaxDeviations THEN {"ok", "empty", "throws"}
  ELSE {"ok"}

\* The outcomes of a step that is not handed the abort signal.
LocalOutcomes ==
  IF stRun.deviations < MaxDeviations THEN {"ok", "throws"} ELSE {"ok"}

Deviates(outcome) == IF outcome # "ok" /\ ~Aborted THEN 1 ELSE 0

\* withTimed (lines 296-312): whatever fn throws, a cancellation included, is
\* turned into {ok: false}; nothing propagates to the caller.
withTimed(outcome) ==
  [ok |-> outcome \notin {"throws", "throws_tool_result_missing"}, res |-> outcome,
   thrown |-> FALSE]

InitSelfTest ==
  /\ selfTestRunning = FALSE
  /\ selfTestController = "null"
  /\ stPc = "idle"
  /\ stRun = NoRun
  /\ report = EmptyReport
  /\ entry = NoEntry
  /\ capturedTools = FALSE
  /\ panel = NoPanel

Post(pn, msg) == [pn EXCEPT !.posts = Append(@, msg)]

postStatus(pn, status) == [pn EXCEPT !.status = @ \cup {status}]

\* createHandlers.cancelSelfTest (lines 203-212)
cancelSelfTest ==
  \/ /\ ~selfTestRunning \/ selfTestController = "null"
     /\ panel' = postStatus(panel, "Self Test not running.")
     /\ UNCHANGED <<selfTestRunning, selfTestController, stPc, stRun, report, entry, capturedTools>>
  \/ /\ selfTestRunning /\ selfTestController # "null"
     /\ Aborted \/ stRun.deviations < MaxDeviations
     /\ selfTestController' = "aborted"
     /\ stRun' = [stRun EXCEPT !.aborted = TRUE,
                               !.deviations = IF Aborted THEN @ ELSE @ + 1]
     /\ panel' = postStatus(panel, "Self Test canceled.")
     /\ UNCHANGED <<selfTestRunning, stPc, report, entry, capturedTools>>

\* A handler that never refuses a runSelfTest message
alreadyRunning_Never(running) == FALSE

\* createHandlers.runSelfTest line 214: if (selfTestRunning)
alreadyRunning(running) == running

\* createHandlers.runSelfTest received while a run is in progress (lines 214-217)
runSelfTestAlreadyRunning ==
  /\ alreadyRunning(selfTestRunning)
  /\ panel' = postStatus(panel, "Self Test already running.")
  /\ UNCHANGED <<selfTestRunning, selfTestController, stPc, stRun, report, entry, capturedTools>>

\* runSelfTest lines 1341-1372: the three global tests that run without an await.
GlobalSyncTests(rep, toolDefs, samplesOk, schemaOk) ==
  PushGlobal(
    PushGlobal(
      PushGlobal(rep, "capturedToolsAvailable", toolDefs),
      "capturedToolsSchemaSamples", IF toolDefs THEN samplesOk ELSE TRUE),
    "responsesStrictSchema", schemaOk)

\* runSelfTest lines 1389-1391 and 1414-1416: without tool definitions the two
\* remaining global tests are recorded as skipped.
GlobalSkipped(rep) ==
  PushGlobal(PushGlobal(rep, "responsesStrictSchema(capturedTools)", TRUE), "toolsExec", TRUE)

BoolDeviation(b) == IF b THEN 0 ELSE 1

\* createHandlers.runSelfTest (lines 218-232) and runSelfTest up to its first
\* await (lines 1264-1303, and 1324-1375 when tools were captured before).
runSelfTestStart ==
  \E provs \in ProviderLists(MaxProviders), samplesOk \in BOOLEAN, schemaOk \in BOOLEAN :
    /\ ~alreadyRunning(selfTestRunning)
    /\ ~capturedTools => samplesOk /\ schemaOk
    /\ NonNominal(provs) + BoolDeviation(samplesOk) + BoolDeviation(schemaOk) <= MaxDeviations
    /\ selfTestRunning' = TRUE
    /\ selfTestController' = "live"
    /\ panel' = postStatus(Post(NoPanel, "selfTestStarted"), "Self Test started...")
    /\ entry' = NoEntry
    /\ stRun' = [NoRun EXCEPT !.providers = provs, !.toolDefs = capturedTools,
                              !.deviations = NonNominal(provs) + BoolDeviation(samplesOk)
                                             + BoolDeviation(schemaOk)]
    /\ IF capturedTools
         THEN /\ report' = GlobalSyncTests(EmptyReport, TRUE, samplesOk, schemaOk)
              /\ stPc' = "strictCaptured"
         ELSE /\ report' = EmptyReport
              /\ stPc' = "fetchTools"
    /\ UNCHANGED capturedTools

\* createHandlers.runSelfTest lines 239-253: what the handler does when the
\* promise of runSelfTest settles ("returned", or the name of the error).
handlerSettled(pn, settled) ==
  CASE settled = "returned"   -> postStatus(pn, "Self Test finished.")
    [] settled = "AbortError" -> postStatus(Post(pn, "selfTestCanceled"), "Self Test canceled.")
    [] OTHER                  -> postStatus(Post(pn, "selfTestFailed"), "Self Test failed")

\* An error escapes runSelfTest: the catch and finally blocks of the handler.
Rejected ==
  \E name \in (IF Aborted THEN {"AbortError", "Error"} ELSE {"Error"}) :
    /\ panel' = handlerSettled(panel, name)
    /\ selfTestRunning' = FALSE
    /\ selfTestController' = "null"
    /\ stPc' = "idle"
    /\ UNCHANGED <<stRun, report, entry, capturedTools>>

\* runSelfTest lines 1438-1442 with the handler's onEvent and lines 239, 250-253.
Finished(rep) ==
  /\ report' = [rep EXCEPT !.finished = TRUE]
  /\ panel' = handlerSettled(Post(panel, "selfTestDone"), "returned")
  /\ selfTestRunning' = FALSE
  /\ selfTestController' = "null"
  /\ stPc' = "idle"

\* runSelfTest lines 1303-1391: the upstream fetch answers; the run goes on to
\* the next await.
fetchToolsDone ==
  \E outcome \in SignalledOutcomes \cup (IF Aborted THEN {"ok", "empty"} ELSE {}),
     samplesOk \in BOOLEAN, schemaOk \in BOOLEAN :
    LET localRes == withTimed(outcome)
        defs == localRes.ok /\ localRes.res = "ok"
        dev  == Deviates(outcome) + BoolDeviation(samplesOk) + BoolDeviation(schemaOk)
    IN /\ stPc = "fetchTools"
       /\ ~defs => samplesOk
       /\ stRun.deviations + dev <= MaxDeviations
       /\ IF localRes.thrown THEN Rejected
          ELSE /\ capturedTools' = (capturedTools \/ defs)
               /\ stRun' = [stRun EXCEPT !.toolDefs = defs, !.deviations = @ + dev]
               /\ IF defs
                    THEN /\ report' = GlobalSyncTests(report, TRUE, samplesOk, schemaOk)
                         /\ stPc' = "strictCaptured"
                    ELSE /\ report' = GlobalSkipped(GlobalSyncTests(report, FALSE, samplesOk, schemaOk))
                         /\ stPc' = "loop"
               /\ UNCHANGED <<selfTestRunning, selfTestController, entry, panel>>

\* runSelfTest lines 1375-1388
strictCapturedDone ==
  \E outcome \in LocalOutcomes :
    LET strictCaptured == withTimed(outcome)
    IN /\ stPc = "strictCaptured"
       /\ IF strictCaptured.thrown THEN Rejected
          ELSE /\ report' = PushGlobal(report, "responsesStrictSchema(capturedTools)", strictCaptured.ok)
               /\ stRun' = [stRun EXCEPT !.deviations = @ + Deviates(outcome)]
               /\ stPc' = "toolsExec"
               /\ UNCHANGED <<selfTestRunning, selfTestController, entry, capturedTools, panel>>

\* runSelfTest lines 1395-1413: selfTestToolsModelExec as one step; "empty" is
\* a result whose ok is false.
toolsExecDone ==
  \E outcome \in SignalledOutcomes :
    LET execRes == withTimed(outcome)
    IN /\ stPc = "toolsExec"
       /\ IF execRes.thrown THEN Rejected
          ELSE /\ report' = PushGlobal(report, "toolsExec", execRes.ok /\ execRes.res = "ok")
               /\ stRun' = [stRun EXCEPT !.deviations = @ + Deviates(outcome)]
               /\ stPc' = "loop"
               /\ UNCHANGED <<selfTestRunning, selfTestController, entry, capturedTools, panel>>

\* runSelfTest lines 1427-1429: does the history-summary test have a fallback
\* provider with a model?
firstOkProvider(provs) ==
  IF \E i \in 1..Len(provs) : provs[i].configOk
    THEN CHOOSE i \in 1..Len(provs) : provs[i].configOk /\ \A j \in 1..(i - 1) : ~provs[j].configOk
    ELSE 0

fallbackProvider(provs) ==
  IF firstOkProvider(provs) # 0 THEN firstOkProvider(provs)
  ELSE IF Len(provs) > 0 THEN 1 ELSE 0

hasFallbackModel(provs) ==
  fallbackProvider(provs) # 0 /\ provs[fallbackProvider(provs)].localModel

\* selfTestProvider returns entry; runSelfTest lines 1421-1423 push it.
ReturnEntry(e) ==
  /\ entry' = e
  /\ report' = PushProvider(report, e)
  /\ stPc' = "loop"

\* A provider loop that a provider with an incomplete configuration ends.
nextProvider_StopOnBadConfig ==
  /\ stPc = "loop"
  /\ IF stRun.idx < Len(stRun.providers) /\ stRun.providers[stRun.idx + 1].configOk
       THEN /\ stRun' = [stRun EXCEPT !.idx = @ + 1, !.stopOther = FALSE]
            /\ entry' = [providerId |-> stRun.idx + 1, tests |-> <<>>, ok |-> TRUE]
            /\ stPc' = "models"
            /\ UNCHANGED <<selfTestRunning, selfTestController, report, capturedTools, panel>>
       ELSE IF stRun.idx < Len(stRun.providers)
         THEN /\ Finished(PushProvider(report,
                   record([providerId |-> stRun.idx + 1, tests |-> <<>>, ok |-> TRUE],
                          Test("config", FALSE))))
              /\ UNCHANGED <<stRun, entry, capturedTools>>
         ELSE /\ Finished(PushGlobal(report, "historySummary", TRUE))
              /\ UNCHANGED <<stRun, entry, capturedTools>>

\* runSelfTest line 1419, the head of the provider loop.  With a provider left,
\* selfTestProvider runs to its first await (lines 880-924); with none left,
\* lines 1427-1436 run.
nextProvider ==
  /\ stPc = "loop"
  /\ IF stRun.idx < Len(stRun.providers)
       THEN LET p  == stRun.providers[stRun.idx + 1]
                e0 == [providerId |-> stRun.idx + 1, tests |-> <<>>, ok |-> TRUE]
            IN /\ stRun' = [stRun EXCEPT !.idx = @ + 1, !.stopOther = FALSE]
               /\ IF ~p.configOk
                    THEN ReturnEntry(record(e0, Test("config", FALSE)))
                    ELSE /\ entry' = e0
                         /\ stPc' = "models"
                         /\ UNCHANGED report
               /\ UNCHANGED <<selfTestRunning, selfTestController, capturedTools, panel>>
       ELSE IF hasFallbackModel(stRun.providers)
         THEN /\ stPc' = "hs_run1"
              /\ UNCHANGED <<selfTestRunning, selfTestController, stRun, report, entry,
                             capturedTools, panel>>
         ELSE /\ Finished(PushGlobal(report, "historySummary", TRUE))
              /\ UNCHANGED <<stRun, entry, capturedTools>>

\* pickProviderModel (lines 453-461): is a model found?
pickProviderModel(p, modelsListed) == p.localModel \/ modelsListed

\* selfTestProvider lines 924-939
modelsDone ==
  \E outcome \in SignalledOutcomes :
    LET modelsRes == withTimed(outcome)
        e1 == record(entry, Test("models", modelsRes.ok))
        model == pickProviderModel(stRun.providers[stRun.idx], modelsRes.ok /\ modelsRes.res = "ok")
    IN /\ stPc = "models"
       /\ IF modelsRes.thrown THEN Rejected
          ELSE /\ stRun' = [stRun EXCEPT !.deviations = @ + Deviates(outcome)]
               /\ IF ~model
                    THEN ReturnEntry(record(e1, Test("model", FALSE)))
                    ELSE /\ entry' = e1
                         /\ stPc' = "completeText"
                         /\ UNCHANGED report
               /\ UNCHANGED <<selfTestRunning, selfTestController, capturedTools, panel>>

\* A text probe whose failure ends the provider's probes.
textProbeDone_StopOnFail(name, next) ==
  \E outcome \in SignalledOutcomes :
    LET res == withTimed(outcome)
    IN /\ stPc = name
       /\ stRun' = [stRun EXCEPT !.deviations = @ + Deviates(outcome)]
       /\ IF res.ok /\ res.res = "ok"
            THEN /\ entry' = record(entry, Test(name, TRUE))
                 /\ stPc' = next
                 /\ UNCHANGED report
            ELSE ReturnEntry(record(entry, Test(name, FALSE)))
       /\ UNCHANGED <<selfTestRunning, selfTestController, capturedTools, panel>>

\* The shape shared by the four text probes: ok needs a non-empty text.
textProbeDone(name, next) ==
  \E outcome \in SignalledOutcomes :
    LET res == withTimed(outcome)
    IN /\ stPc = name
       /\ IF res.thrown THEN Rejected
          ELSE /\ stRun' = [stRun EXCEPT !.deviations = @ + Deviates(outcome)]
               /\ entry' = record(entry, Test(name, res.ok /\ res.res = "ok"))
               /\ stPc' = next
               /\ UNCHANGED <<selfTestRunning, selfTestController, report, capturedTools, panel>>

\* selfTestProvider lines 941-956
completeTextDone == textProbeDone("completeText", "streamText")

\* selfTestProvider lines 958-973
streamTextDone == textProbeDone("streamText", "nextEdit")

\* selfTestProvider lines 976-992
nextEditDone == textProbeDone("nextEdit", "nextEditLoc")

\* selfTestProvider lines 995-1015
nextEditLocDone == textProbeDone("nextEditLoc", "chatStream")

\* A basic chat probe that is recorded after the real-tool tests.
chatStreamDone_RecordedLate ==
  \E outcome \in SignalledOutcomes :
    LET chatRes == withTimed(outcome)
    IN /\ stPc = "chatStream"
       /\ stRun' = [stRun EXCEPT !.deviations = @ + Deviates(outcome)]
       /\ entry' = record(record(record(entry, Test("realToolsSchema", TRUE)),
                                 Test("realToolsToolRoundtrip", TRUE)),
                          Test("chatStream", chatRes.ok /\ chatRes.res = "ok"))
       /\ stPc' = "tools+multimodal"
       /\ UNCHANGED <<selfTestRunning, selfTestController, report, capturedTools, panel>>

\* selfTestProvider lines 1025-1043 and 1076-1079
chatStreamDone ==
  \E outcome \in SignalledOutcomes :
    LET chatRes == withTimed(outcome)
        e1 == record(entry, Test("chatStream", chatRes.ok /\ chatRes.res = "ok"))
    IN /\ stPc = "chatStream"
       /\ IF chatRes.thrown THEN Rejected
          ELSE /\ stRun' = [stRun EXCEPT !.deviations = @ + Deviates(outcome)]
               /\ IF stRun.toolDefs
                    THEN /\ entry' = e1
                         /\ stPc' = "realToolsSchema"
                    ELSE /\ entry' = record(record(e1, Test("realToolsSchema", TRUE)),
                                            Test("realToolsToolRoundtrip", TRUE))
                         /\ stPc' = "tools+multimodal"
               /\ UNCHANGED <<selfTestRunning, selfTestController, report, capturedTools, panel>>

\* selfTestProvider lines 1045-1060
realToolsSchemaDone ==
  \E outcome \in LocalOutcomes :
    LET schemaRes == withTimed(outcome)
    IN /\ stPc = "realToolsSchema"
       /\ IF schemaRes.thrown THEN Rejected
          ELSE /\ stRun' = [stRun EXCEPT !.deviations = @ + Deviates(outcome)]
               /\ entry' = record(entry, Test("realToolsSchema", schemaRes.ok))
               /\ stPc' = "realToolsToolRoundtrip"
               /\ UNCHANGED <<selfTestRunning, selfTestController, report, capturedTools, panel>>

\* selfTestProvider lines 1063-1075: "empty" is a probe result whose ok is false.
realToolsToolRoundtripDone ==
  \E outcome \in SignalledOutcomes :
    LET realToolsRoundtripRes == withTimed(outcome)
    IN /\ stPc = "realToolsToolRoundtrip"
       /\ IF realToolsRoundtripRes.thrown THEN Rejected
          ELSE /\ stRun' = [stRun EXCEPT !.deviations = @ + Deviates(outcome)]
               /\ entry' = record(entry, Test("realToolsToolRoundtrip",
                                   realToolsRoundtripRes.ok /\ realToolsRoundtripRes.res = "ok"))
               /\ stPc' = "tools+multimodal"
               /\ UNCHANGED <<selfTestRunning, selfTestController, report, capturedTools, panel>>

\* selfTestProvider lines 1092-1117: "empty" is a response without a tool use,
\* "ok_other_stop" one with a tool use whose stop_reason is not tool-use.
toolsMultimodalDone ==
  \E outcome \in SignalledOutcomes \cup
                 (IF ~Aborted /\ stRun.deviations < MaxDeviations THEN {"ok_other_stop"} ELSE {}) :
    LET toolChatRes == withTimed(outcome)
    IN /\ stPc = "tools+multimodal"
       /\ IF toolChatRes.thrown THEN Rejected
          ELSE /\ stRun' = [stRun EXCEPT !.deviations = @ + Deviates(outcome),
                                         !.stopOther = (outcome = "ok_other_stop")]
               /\ IF ~toolChatRes.ok
                    THEN ReturnEntry(record(entry, Test("tools+multimodal", FALSE)))
                    ELSE IF toolChatRes.res = "empty"
                      THEN ReturnEntry(record(record(entry, Test("tools+multimodal", TRUE)),
                                              Test("toolRoundtrip", TRUE)))
                      ELSE /\ entry' = record(entry, Test("tools+multimodal", TRUE))
                           /\ stPc' = "toolRoundtrip"
                           /\ UNCHANGED report
               /\ UNCHANGED <<selfTestRunning, selfTestController, capturedTools, panel>>

\* selfTestProvider lines 1140-1157
toolRoundtripDone ==
  \E outcome \in SignalledOutcomes \cup
                 (IF ~Aborted /\ stRun.deviations < MaxDeviations
                    THEN {"throws_tool_result_missing"} ELSE {}) :
    LET toolRoundtripRes == withTimed(outcome)
        e1 == record(entry, Test("toolRoundtrip", toolRoundtripRes.ok /\ toolRoundtripRes.res = "ok"))
        e2 == IF outcome = "throws_tool_result_missing" THEN record(e1, Test("note", TRUE)) ELSE e1
        e3 == IF stRun.stopOther THEN record(e2, Test("note", TRUE)) ELSE e2
    IN /\ stPc = "toolRoundtrip"
       /\ IF toolRoundtripRes.thrown THEN Rejected
          ELSE /\ stRun' = [stRun EXCEPT !.deviations = @ + Deviates(outcome)]
               /\ ReturnEntry(e3)
               /\ UNCHANGED <<selfTestRunning, selfTestController, capturedTools, panel>>

\* selfTestHistorySummary lines 1197-1207
historySummaryRun1Done ==
  \E outcome \in SignalledOutcomes :
    LET run1 == withTimed(outcome)
    IN /\ stPc = "hs_run1"
       /\ IF run1.thrown THEN Rejected
          ELSE /\ stRun' = [stRun EXCEPT !.deviations = @ + Deviates(outcome),
                                         !.hs1 = (run1.ok /\ run1.res = "ok")]
               /\ stPc' = "hs_run2"
               /\ UNCHANGED <<selfTestRunning, selfTestController, report, entry, capturedTools, panel>>

\* selfTestHistorySummary lines 1209-1219
historySummaryRun2Done ==
  \E outcome \in SignalledOutcomes :
    LET run2 == withTimed(outcome)
    IN /\ stPc = "hs_run2"
       /\ IF run2.thrown THEN Rejected
          ELSE /\ stRun' = [stRun EXCEPT !.deviations = @ + Deviates(outcome)]
               /\ report' = PushGlobal(report, "historySummary",
                                       stRun.hs1 /\ run2.ok /\ run2.res = "ok")
               /\ stPc' = "hs_delete"
               /\ UNCHANGED <<selfTestRunning, selfTestController, entry, capturedTools, panel>>

\* selfTestHistorySummary lines 1221-1238 (whatever the deletion throws is
\* ignored) and runSelfTest lines 1432-1442.
historySummaryDeleteDone ==
  /\ stPc = "hs_delete"
  /\ Finished(report)
  /\ UNCHANGED <<stRun, entry, capturedTools>>

(***************************************************************************)
(* Real-tool round-trip probe (realToolsToolRoundtripByProvider)           *)
(***************************************************************************)

\* const batchSize = 6
batchSize == 6

\* Bound: the tools handed to the probe.
MaxTools == 7

\* Bound: the tool-use nodes of one first-turn response.
MaxUses == 2

\* The tool names, de-duplicated and sorted by name as
\* pickRealToolsForUsabilityProbe returns them when maxTools covers them all.
ToolUniverse == <<"a", "b", "c", "d", "e", "f", "g", "h">>

\* The tools whose definition carries mcp_server_name / mcp_tool_name.
McpTools == {"a", "g"}

\* tool_use_id values of a response; "" stands for a missing id.
UseIds == {"u1", "u2", ""}

toolNames(n) == SubSeq(ToolUniverse, 1, n)

Min(x, y) == IF x < y THEN x ELSE y

\* Batches that take one tool more than the step: neighbours overlap.
RECURSIVE batches_Overlapping(_, _)
batches_Overlapping(names, i) ==
  IF i >= Len(names) THEN <<>>
  ELSE <<SubSeq(names, i + 1, Min(i + batchSize + 1, Len(names)))>>
         \o batches_Overlapping(names, i + batchSize)

\* lines 740-741: for (i = 0; i < toolNames.length; i += batchSize)
\*   batches.push(toolNames.slice(i, i + batchSize)), from index i on
RECURSIVE batches(_, _)
batches(names, i) ==
  IF i >= Len(names) THEN <<>>
  ELSE <<SubSeq(names, i + 1, Min(i + batchSize, Len(names)))>>
         \o batches(names, i + batchSize)

\* line 744: batches[bi - 1]
namesBatch(n, bi) == batches(toolNames(n), 0)[bi]

\* line 704: the picked definition of a name
toolDefsByName(nm) == [name |-> nm, mcp |-> nm \in McpTools]

\* line 745: the definitions of the tools of the batch
defsBatch(n, bi) ==
  [i \in 1..Len(namesBatch(n, bi)) |-> toolDefsByName(namesBatch(n, bi)[i])]

batchCount(n) == (n + batchSize - 1) \div batchSize

InSeq(x, sq) == \E i \in 1..Len(sq) : sq[i] = x

\* The names a model is taken to answer with in batch bi: the first two tools
\* of the batch, a tool that is not in the batch, and a missing name.
AnswerNames(n, bi) ==
  {namesBatch(n, bi)[i] : i \in 1..Min(2, Len(namesBatch(n, bi)))} \cup {"zz", ""}

\* A tool-use node as extractToolUsesFromNodes reads it; metaOk: the echoed
\* MCP server and tool names equal those of the definition.
UseNodes(n, bi) ==
  {[tool_name |-> nm, tool_use_id |-> id, metaOk |-> m] :
     nm \in AnswerNames(n, bi), id \in UseIds, m \in BOOLEAN}

RECURSIVE NodeSeqs(_, _)
NodeSeqs(S, k) ==
  IF k = 0 THEN {<<>>}
  ELSE NodeSeqs(S, k - 1) \cup
       {Append(sq, x) : sq \in {y \in NodeSeqs(S, k - 1) : Len(y) = k - 1}, x \in S}

\* The echo of a tool without MCP meta is not looked at: hold it at one value.
Responses(n, bi) ==
  {sq \in NodeSeqs(UseNodes(n, bi), MaxUses) :
     \A i \in 1..Len(sq) : sq[i].tool_name \notin McpTools => sq[i].metaOk}

UseHasIdAndName(u) == u.tool_use_id # "" /\ u.tool_name # ""

\* extractToolUsesFromNodes (lines 265-281)
extractToolUsesFromNodes(nodes) == SelectSeq(nodes, UseHasIdAndName)

\* A pairing that keeps every tool use of a tool of the batch.
RECURSIVE usedByName_NoDedupe(_, _)
usedByName_NoDedupe(toolUses, batch) ==
  IF toolUses = <<>> THEN <<>>
  ELSE LET rest == usedByName_NoDedupe(SubSeq(toolUses, 1, Len(toolUses) - 1), batch)
           t == toolUses[Len(toolUses)]
       IN IF ~InSeq(t.tool_name, batch) THEN rest ELSE Append(rest, t)

\* usedByName of lines 784-790, as the sequence of its values in insertion order
RECURSIVE usedByName(_, _)
usedByName(toolUses, batch) ==
  IF toolUses = <<>> THEN <<>>
  ELSE LET rest == usedByName(SubSeq(toolUses, 1, Len(toolUses) - 1), batch)
           t == toolUses[Len(toolUses)]
       IN IF \E i \in 1..Len(rest) : rest[i].tool_name = t.tool_name THEN rest
          ELSE IF ~InSeq(t.tool_name, batch) THEN rest
          ELSE Append(rest, t)

NameUnused(used, name) == \A i \in 1..Len(used) : used[i].tool_name # name

\* lines 792-800: the tools of the batch without a match, in batch order
Unmatched(batch, used) == SelectSeq(batch, LAMBDA nm : NameUnused(used, nm))

\* lines 792-802: the tools of the batch with a match, in batch order
Matched(batch, used) == SelectSeq(batch, LAMBDA nm : ~NameUnused(used, nm))

MatchOf(used, name) == used[CHOOSE i \in 1..Len(used) : used[i].tool_name = name]

\* lines 804-811: the matched tools whose echoed MCP names differ from the
\* definition's (one entry per tool here; the code pushes one per differing field)
Mismatched(batch, used) ==
  SelectSeq(Matched(batch, used), LAMBDA nm : nm \in McpTools /\ ~MatchOf(used, nm).metaOk)

\* lines 836-844: one ToolResultNode per entry of usedByName
makeToolResultNodes(used) ==
  [i \in 1..Len(used) |-> [id |-> i, tool_use_id |-> used[i].tool_use_id,
                            tool |-> used[i].tool_name]]

\* lines 775 and 850: if (abortSignal && abortSignal.aborted) throw err
Rethrows_Always(aborted) == TRUE

Rethrows(aborted) == aborted

\* line 876
ProbeOk_IgnoringMeta(acc) == acc.callFailed = <<>> /\ acc.roundtripFailed = <<>>

ProbeOk(acc) ==
  acc.callFailed = <<>> /\ acc.roundtripFailed = <<>> /\ acc.metaMismatches = <<>>

\* selfTestProvider lines 1063-1075: the test recorded for what the probe did
RecordedRoundtripTest(thrown, ok) ==
  LET realToolsRoundtripRes == withTimed(IF thrown THEN "throws" ELSE "ok")
  IN Test("realToolsToolRoundtrip", realToolsRoundtripRes.ok /\ ok)

NoAcc == [callFailed |-> <<>>, called |-> <<>>, metaMismatches |-> <<>>,
          roundtripFailed |-> <<>>, roundtripOk |-> <<>>]

NoTurn == [bi |-> 0, toolDefinitions |-> <<>>, turn1 |-> "none", nodes |-> <<>>,
           request_nodes |-> <<>>, sent |-> FALSE, turn2 |-> "none"]

\* lines 756-769: the first request of batch bi, with the batch's definitions
req1(n, bi) == [NoTurn EXCEPT !.bi = bi, !.toolDefinitions = defsBatch(n, bi)]

NoResult == [returned |-> FALSE, thrown |-> FALSE, ok |-> FALSE, test |-> Test("none", TRUE)]

InitRoundtrip ==
  /\ rtPc = "idle"
  /\ rtIn = [n |-> 0, aborted |-> FALSE, batches |-> <<>>]
  /\ rtBi = 0
  /\ rtAcc = NoAcc
  /\ rtTurn = NoTurn
  /\ rtResult = NoResult

\* lines 871-877, and the test selfTestProvider records
Returns(acc) ==
  /\ rtPc' = "done"
  /\ rtResult' = [returned |-> TRUE, thrown |-> FALSE, ok |-> ProbeOk(acc),
                  test |-> RecordedRoundtripTest(FALSE, ProbeOk(acc))]

\* the error of an aborted chat call leaves the probe
Throws ==
  /\ rtPc' = "done"
  /\ rtResult' = [returned |-> FALSE, thrown |-> TRUE, ok |-> FALSE,
                  test |-> RecordedRoundtripTest(TRUE, FALSE)]

\* the end of an iteration of the loop of line 743; turn is what the iteration
\* received and sent, which the next iteration starts without
Continue(acc, turn) ==
  IF rtBi < batchCount(rtIn.n)
    THEN /\ rtBi' = rtBi + 1
         /\ rtPc' = "turn1"
         /\ rtTurn' = req1(rtIn.n, rtBi + 1)
         /\ UNCHANGED rtResult
    ELSE /\ Returns(acc)
         /\ rtTurn' = turn
         /\ UNCHANGED rtBi

\* realToolsToolRoundtripByProvider lines 692-773: called with n tools
realToolsToolRoundtripByProvider ==
  \E n \in 0..MaxTools :
    /\ rtPc = "idle"
    /\ rtIn' = [n |-> n, aborted |-> FALSE, batches |-> batches(toolNames(n), 0)]
    /\ rtAcc' = NoAcc
    /\ rtTurn' = IF n = 0 THEN NoTurn ELSE req1(n, 1)
    /\ IF n = 0
         THEN /\ rtPc' = "done"
              /\ rtBi' = 0
              /\ rtResult' = [returned |-> TRUE, thrown |-> FALSE, ok |-> FALSE,
                              test |-> RecordedRoundtripTest(FALSE, FALSE)]
         ELSE /\ rtPc' = "turn1"
              /\ rtBi' = 1
              /\ rtResult' = NoResult

\* the caller's abort signal fires while a chat call is awaited
abortSignalled ==
  /\ rtPc \in {"turn1", "turn2"}
  /\ ~rtIn.aborted
  /\ rtIn' = [rtIn EXCEPT !.aborted = TRUE]
  /\ UNCHANGED <<rtPc, rtBi, rtAcc, rtTurn, rtResult>>

\* lines 773-781: the first chat call of the batch throws
turn1Throws ==
  /\ rtPc = "turn1"
  /\ LET turn == [rtTurn EXCEPT !.turn1 = "throws"]
     IN IF Rethrows(rtIn.aborted)
          THEN /\ Throws
               /\ rtTurn' = turn
               /\ UNCHANGED <<rtBi, rtAcc>>
          ELSE LET acc == [rtAcc EXCEPT !.callFailed = @ \o namesBatch(rtIn.n, rtBi)]
               IN /\ rtAcc' = acc
                  /\ Continue(acc, turn)
  /\ UNCHANGED rtIn

\* lines 773-848: the first chat call of the batch answers
turn1Answers ==
  /\ rtPc = "turn1"
  /\ \E nodes \in Responses(rtIn.n, rtBi) :
    LET batch == namesBatch(rtIn.n, rtBi)
        used == usedByName(extractToolUsesFromNodes(nodes), batch)
        acc == [rtAcc EXCEPT !.callFailed = @ \o Unmatched(batch, used),
                             !.called = @ \o Matched(batch, used),
                             !.metaMismatches = @ \o Mismatched(batch, used)]
    IN /\ rtAcc' = acc
       /\ IF Len(used) = 0
            THEN Continue(acc, [rtTurn EXCEPT !.turn1 = "answers", !.nodes = nodes])
            ELSE /\ rtTurn' = [rtTurn EXCEPT !.turn1 = "answers", !.nodes = nodes,
                                            !.request_nodes = makeToolResultNodes(used),
                                            !.sent = TRUE]
                 /\ rtPc' = "turn2"
                 /\ UNCHANGED <<rtBi, rtResult>>
       /\ UNCHANGED rtIn

\* lines 846-869: the second chat call of the batch throws, answers without
\* text, or answers with text
turn2Done ==
  /\ rtPc = "turn2"
  /\ \E outcome \in {"throws", "empty", "ok"} :
    LET names == [i \in 1..Len(rtTurn.request_nodes) |-> rtTurn.request_nodes[i].tool]
        acc == IF outcome = "ok"
                 THEN [rtAcc EXCEPT !.roundtripOk = @ \o names]
                 ELSE [rtAcc EXCEPT !.roundtripFailed = @ \o names]
        turn == [rtTurn EXCEPT !.turn2 = outcome]
    IN /\ IF outcome = "throws" /\ Rethrows(rtIn.aborted)
            THEN /\ Throws
                 /\ rtTurn' = turn
                 /\ UNCHANGED <<rtBi, rtAcc>>
            ELSE /\ rtAcc' = acc
                 /\ Continue(acc, turn)
       /\ UNCHANGED rtIn

(***************************************************************************)
(* Tool-definition lists and their consumers (self-test/tool-defs)         *)
(***************************************************************************)

\* Bound: the entries of a tool-definition list.
MaxDefs == 3

\* summarizeToolDefs: maxNames = 12
maxNames == 12

\* A tool definition: its name as normalizeString returns it ("" for a missing
\* or blank name) and a mark v that tells entries of one name apart.
ToolDefs == [name : {"x", "y", ""}, v : 1..2]

DefLists == UNION {[1..k -> ToolDefs] : k \in 0..MaxDefs}

\* dedupeToolDefsByName (87-99)
RECURSIVE dedupeToolDefsByName(_)
dedupeToolDefsByName(toolDefs) ==
  IF toolDefs = <<>> THEN <<>>
  ELSE LET out == dedupeToolDefsByName(SubSeq(toolDefs, 1, Len(toolDefs) - 1))
           d == toolDefs[Len(toolDefs)]
       IN IF d.name = "" \/ \E i \in 1..Len(out) : out[i].name = d.name
            THEN out ELSE Append(out, d)

\* summarizeToolDefs (72-85)
summarizeToolDefs(toolDefs) ==
  LET seen == dedupeToolDefsByName(toolDefs)
      names == [i \in 1..Min(maxNames, Len(seen)) |-> seen[i].name]
  IN [count |-> Len(toolDefs), names |-> names,
      namesTruncated |-> Len(toolDefs) > Len(names)]

\* summarizeCapturedToolsSchemas (320-340): toolCount
summarizeCapturedToolsSchemas(toolDefs) ==
  [toolCount |-> Len(dedupeToolDefsByName(toolDefs))]

NoOut == [by |-> "none", defs |-> <<>>, counts |-> {}, truncated |-> FALSE]

InitToolDefs ==
  /\ tdPc = "idle"
  /\ tdDefs = <<>>
  /\ tdOut = NoOut

\* shim.js 416 / 547: a chat request's tool_definitions become the last
\* captured set (an empty list is not captured)
captureAugmentToolDefinitions ==
  /\ tdPc = "idle"
  /\ \E tool_definitions \in DefLists \ {<<>>} :
       /\ tdDefs' = tool_definitions
       /\ tdPc' = "captured"
       /\ tdOut' = NoOut

\* runSelfTest 1301-1323 with fetchLocalToolDefinitionsFromUpstream (158-192):
\* nothing was captured and the upstream tools model returns a list
fetchLocalToolDefinitionsFromUpstream ==
  /\ tdPc = "idle"
  /\ \E list \in DefLists :
       LET defs == dedupeToolDefsByName(list)
       IN IF Len(defs) = 0
            THEN /\ tdOut' = [by |-> "fetch", defs |-> <<>>, counts |-> {}, truncated |-> FALSE]
                 /\ UNCHANGED <<tdPc, tdDefs>>
            ELSE /\ tdDefs' = defs
                 /\ tdPc' = "captured"
                 /\ tdOut' = [by |-> "fetch", defs |-> defs, counts |-> {Len(defs)},
                              truncated |-> FALSE]

\* runSelfTest 1330-1358: report.global.capturedTools and the tests
\* capturedToolsAvailable and capturedToolsSchemaSamples
capturedToolsSummary ==
  /\ tdPc = "captured"
  /\ LET capturedSummary == summarizeToolDefs(tdDefs)
         schemaSum == summarizeCapturedToolsSchemas(tdDefs)
     IN tdOut' = [by |-> "capturedTools", defs |-> dedupeToolDefsByName(tdDefs),
                  counts |-> {capturedSummary.count, schemaSum.toolCount},
                  truncated |-> capturedSummary.namesTruncated]
  /\ UNCHANGED <<tdPc, tdDefs>>

\* selfTestProvider 1042-1064: the summary realToolsSchema reports, and the
\* definitions realToolsToolRoundtripByProvider works on (695-697)
realToolsProbes ==
  /\ tdPc = "captured"
  /\ LET sum == summarizeToolDefs(tdDefs)
         uniqueDefs == dedupeToolDefsByName(tdDefs)
     IN tdOut' = [by |-> "realTools", defs |-> uniqueDefs,
                  counts |-> {sum.count, Len(uniqueDefs)},
                  truncated |-> sum.namesTruncated]
  /\ UNCHANGED <<tdPc, tdDefs>>

\* selfTestToolsModelExec 451-453
selfTestToolsModelExec ==
  /\ tdPc = "captured"
  /\ LET defs == dedupeToolDefsByName(tdDefs)
     IN tdOut' = [by |-> "toolsExec", defs |-> defs, counts |-> {Len(defs)},
                  truncated |-> FALSE]
  /\ UNCHANGED <<tdPc, tdDefs>>

(***************************************************************************)
(* OpenAI strict-mode schema validation (validateOpenAiStrictJsonSchema)   *)
(***************************************************************************)

\* if (d > 50) return
maxDepth == 50

\* Bound: how many levels below the depth limit the deepest schema goes.
MaxExtra == 1

\* The keywords whose value the validator passes on as one subschema, as an
\* array of subschemas and as a map of subschemas; "patternProperties" stands
\* for the keywords it does not look at.
DirectKeywords == {"items", "prefixItems", "not", "if", "then", "else"}

ArrayKeywords == {"anyOf", "oneOf", "allOf"}

MapKeywords == {"$defs", "definitions"}

Keywords == {"properties"} \cup DirectKeywords \cup ArrayKeywords \cup MapKeywords
              \cup {"patternProperties"}

\* What a schema object says about itself.  properties: absent, {} or
\* {k: ...}; required: absent, [] or ["k"].
Contents ==
  [type : {"object", "string"}, properties : {"absent", "empty", "k"},
   additionalProperties : {"false", "absent"}, required : {"absent", "empty", "k"}]

\* A schema object: its contents and at most one subschema, the object ref
\* under the keyword kw (under properties it is the schema of k; otherwise the
\* schema of k is {type: "string"}).
Node(c, kw, ref) ==
  [type |-> c.type, properties |-> c.properties,
   additionalProperties |-> c.additionalProperties, required |-> c.required,
   kw |-> kw, ref |-> ref]

Wrapper == [type |-> "string", properties |-> "absent",
            additionalProperties |-> "absent", required |-> "absent"]

\* A root with one subschema.
TwoObjects ==
  {<<Node(c1, kw, 2), Node(c2, "none", 2)>> :
     c1 \in Contents, c2 \in Contents, kw \in Keywords}

\* A schema that contains itself, directly or as the items of a subschema.
SelfContaining ==
  {<<Node(c, kw, 1)>> : c \in Contents, kw \in Keywords}
  \cup {<<Node(c1, kw, 2), Node(c2, "items", 1)>> :
          c1 \in Contents, c2 \in {c \in Contents : c.properties = "k" /\ c.type = "string"},
          kw \in {"anyOf", "$defs"}}

\* A schema under n array types: {items: {items: ... }}
Nested(c, n) == [i \in 1..(n + 1) |-> IF i <= n THEN Node(Wrapper, "items", i + 1)
                                      ELSE Node(c, "none", i)]

Schemas ==
  {h \in TwoObjects \cup SelfContaining :
     \A i \in 1..Len(h) : h[i].kw = "properties" => h[i].properties = "k"}
  \cup {Nested(c, n) : c \in Contents, n \in (maxDepth - 1)..(maxDepth + MaxExtra)}

Issue(path, msg) == [path |-> path, msg |-> msg]

Issues == [path : Seq(STRING), msg : STRING]

\* lines 412-428 without the test of properties
ownIssues_ObjectTypeOnly(s, path) ==
  IF s.type = "object"
    THEN (IF s.additionalProperties # "false"
            THEN <<Issue(path, "additionalProperties must be false")>> ELSE <<>>)
         \o (IF s.required = "absent" THEN <<Issue(path, "required must be array")>>
             ELSE IF s.properties = "k" /\ s.required # "k"
                    THEN <<Issue(path, "required missing 'k'")>> ELSE <<>>)
    ELSE <<>>

\* lines 412-428: the issues pushed for the schema object itself
ownIssues(s, path) ==
  LET hasObjectType == s.type = "object"
      hasProps == s.properties # "absent"
  IN IF hasObjectType \/ hasProps
       THEN (IF s.additionalProperties # "false"
               THEN <<Issue(path, "additionalProperties must be false")>> ELSE <<>>)
            \o (IF s.required = "absent" THEN <<Issue(path, "required must be array")>>
                ELSE IF s.properties = "k" /\ s.required # "k"
                       THEN <<Issue(path, "required missing 'k'")>> ELSE <<>>)
       ELSE <<>>

\* validateOpenAiStrictJsonSchema (402-451) on the object ref of the schema h;
\* the value is what the call appends to issues.  validate[r, p, dd, issues]
\* is the list issues after the call for the object r at path p and depth dd.
validateOpenAiStrictJsonSchema(h, ref, path, d) ==
  LET validate[r \in 1..Len(h), p \in Seq(STRING), dd \in Nat, issues \in Seq(Issues)] ==
        IF dd > maxDepth THEN issues
        ELSE CASE h[r].kw = "properties" ->
                    validate[h[r].ref, p \o <<"properties", "k">>, dd + 1,
                             issues \o ownIssues(h[r], p)]
               [] h[r].kw \in DirectKeywords ->
                    validate[h[r].ref, Append(p, h[r].kw), dd + 1, issues \o ownIssues(h[r], p)]
               \* the array is a call of its own (406-409), its element the next
               [] h[r].kw \in ArrayKeywords /\ dd + 1 <= maxDepth ->
                    validate[h[r].ref, p \o <<h[r].kw, "[0]">>, dd + 2,
                             issues \o ownIssues(h[r], p)]
               [] h[r].kw \in MapKeywords ->
                    validate[h[r].ref, p \o <<h[r].kw, "k">>, dd + 1,
                             issues \o ownIssues(h[r], p)]
               [] OTHER -> issues \o ownIssues(h[r], p)
  IN validate[ref, path, d, <<>>]

\* Bound: the tools of a converted tool list.
MaxConverted == 2

\* if (issues.length >= 30) break
maxIssues == 30

\* The parameters of a converted tool: compliant; without additionalProperties:
\* false; with a property whose object schema has no required array; and with
\* a non-compliant object too deep for the validator.
ToolParams ==
  LET good == [type |-> "object", properties |-> "k", additionalProperties |-> "false",
               required |-> "k"]
      bad == [good EXCEPT !.additionalProperties = "absent"]
      inner == [good EXCEPT !.properties = "empty", !.required = "absent"]
  IN {<<Node(good, "none", 1)>>, <<Node(bad, "none", 1)>>,
      <<Node(good, "properties", 2), Node(inner, "none", 2)>>,
      Nested(bad, maxDepth + 1)}

ConvertedTools ==
  UNION {[1..k -> [name : {"t"}, parameters : ToolParams]] : k \in 1..MaxConverted}

ProviderTypes == {"openai_responses", "anthropic"}

\* The validation that looks at the first tool only.
validateConvertedToolsForProvider_FirstOnly(providerType, convertedTools) ==
  LET toolIssues == validateOpenAiStrictJsonSchema(convertedTools[1].parameters, 1, <<>>, 0)
      issues == IF toolIssues = <<>> THEN <<>> ELSE <<[tool |-> 1, issue |-> toolIssues[1]]>>
  IN IF providerType # "openai_responses" THEN [ok |-> TRUE, issues |-> <<>>]
     ELSE [ok |-> issues = <<>>, issues |-> issues]

\* the loop of lines 595-604 over the tools from index i on; a tool is
\* named in an issue by its position in the list
RECURSIVE toolsIssues(_, _, _)
toolsIssues(tools, i, issues) ==
  IF i > Len(tools) THEN issues
  ELSE LET toolIssues == validateOpenAiStrictJsonSchema(tools[i].parameters, 1, <<>>, 0)
           pushed == IF toolIssues = <<>> THEN issues
                     ELSE Append(issues, [tool |-> i, issue |-> toolIssues[1]])
       IN IF Len(pushed) >= maxIssues THEN pushed ELSE toolsIssues(tools, i + 1, pushed)

\* validateConvertedToolsForProvider (589-606)
validateConvertedToolsForProvider(providerType, convertedTools) ==
  IF providerType # "openai_responses" THEN [ok |-> TRUE, issues |-> <<>>]
  ELSE LET issues == toolsIssues(convertedTools, 1, <<>>)
       IN [ok |-> issues = <<>>, issues |-> issues]

NoSchemaTest ==
  [site |-> "none", type |-> "none", tools |-> <<>>, ok |-> TRUE, detail |-> <<>>,
   reportOk |-> TRUE]

InitStrictSchema ==
  /\ ssIn = <<>>
  /\ ssOut = <<>>
  /\ ssTest = NoSchemaTest

\* validateOpenAiStrictJsonSchema(params, toolIssues, "", 0), as
\* validateConvertedToolsForProvider calls it (line 598)
validateSchema ==
  /\ ssIn = <<>>
  /\ ssTest = NoSchemaTest
  /\ \E h \in Schemas :
       /\ ssIn' = h
       /\ ssOut' = validateOpenAiStrictJsonSchema(h, 1, <<>>, 0)
  /\ UNCHANGED ssTest

\* What a schema test records for the validation v of the tools: fn throws the
\* first `shown` issues, withTimed turns that into {ok: false, error}.
SchemaTest(site, type, tools, v, shown) ==
  LET res == withTimed(IF v.ok THEN "ok" ELSE "throws")
  IN [site |-> site, type |-> type, tools |-> tools, ok |-> res.ok,
      detail |-> IF res.ok THEN <<>> ELSE SubSeq(v.issues, 1, Min(shown, Len(v.issues))),
      reportOk |-> IF site = "strictCaptured"
                     THEN PushGlobal(EmptyReport, "responsesStrictSchema(capturedTools)", res.ok).ok
                     ELSE PushProvider(EmptyReport,
                                       record(NoEntry, Test("realToolsSchema", res.ok))).ok]

\* runSelfTest 1374-1388: the global test responsesStrictSchema(capturedTools)
strictCaptured ==
  /\ ssIn = <<>>
  /\ ssTest = NoSchemaTest
  /\ \E tools \in ConvertedTools :
       ssTest' = SchemaTest("strictCaptured", "openai_responses", tools,
                            validateConvertedToolsForProvider("openai_responses", tools), 10)
  /\ UNCHANGED <<ssIn, ssOut>>

\* selfTestProvider 1045-1060: the provider's test realToolsSchema, and
\* runSelfTest 1421-1423 for the report
realToolsSchema ==
  /\ ssIn = <<>>
  /\ ssTest = NoSchemaTest
  /\ \E type \in ProviderTypes, converted \in ConvertedTools :
       ssTest' = SchemaTest("realToolsSchema", type, converted,
                            validateConvertedToolsForProvider(type, converted), 8)
  /\ UNCHANGED <<ssIn, ssOut>>

(***************************************************************************)
(* Schema samples (sampleJsonFromSchema)                                   *)
(***************************************************************************)

\* if (d > 8) return {}
maxSampleDepth == 8

\* const limit = 60
limit == 60

\* Bound: how many objects beyond the depth limit the deepest schema nests.
MaxDeeper == 1

\* A schema object.  has: which of const, a non-empty enum, default and a
\* non-empty oneOf/anyOf/allOf ("union") it carries; given: the value of its
\* const, enum[0] and default, "json" for a JSON value and "self" for a value
\* that contains itself; hasProps: properties is an object, and properties
\* gives the object of each declared key; required: the list, empty when it
\* is not an array; union, items: the object referred to.
PlainSchema ==
  [has |-> {}, given |-> "json", type |-> "absent", hasProps |-> FALSE,
   properties |-> [k \in {} |-> 0], required |-> <<>>, hasMinimum |-> FALSE,
   minimum |-> 0, minLength |-> 0, minItems |-> 0, items |-> 0, union |-> 0]

\* Property schemas by name.
LeafSchema(kind) ==
  CASE kind = "string"     -> [PlainSchema EXCEPT !.type = "string"]
    [] kind = "longString" -> [PlainSchema EXCEPT !.type = "string", !.minLength = 20]
    [] kind = "integer"    -> [PlainSchema EXCEPT !.type = "integer"]
    [] kind = "negative"   -> [PlainSchema EXCEPT !.type = "integer", !.hasMinimum = TRUE,
                                                  !.minimum = -2]
    [] kind = "array"      -> [PlainSchema EXCEPT !.type = "array", !.minItems = 5, !.items = 4]
    [] kind = "default"    -> [PlainSchema EXCEPT !.type = "string", !.has = {"default"}]
    [] OTHER               -> PlainSchema

LeafKinds == {"string", "longString", "integer", "negative", "array", "default", "untyped"}

\* A root, the schemas of its properties a and b (a may be the root itself),
\* and a string schema for items and unions.
RootSchemas ==
  {<<[PlainSchema EXCEPT !.has = has, !.given = given, !.type = type,
                         !.hasProps = hasProps, !.properties = props,
                         !.required = req, !.union = 4],
     LeafSchema(ka), LeafSchema(kb), LeafSchema("string")>> :
     has \in {{}, {"const"}, {"enum"}, {"default"}, {"union"}, {"const", "union"}},
     given \in {"json", "self"},
     type \in {"object", "absent"},
     hasProps \in BOOLEAN,
     props \in {[k \in ks |-> IF k = "a" THEN ra ELSE 3] :
                 ks \in SUBSET {"a", "b"}, ra \in {1, 2}},
     req \in {<<>>, <<"a">>, <<"b">>, <<"a", "c">>, <<"b", "a">>},
     ka \in LeafKinds, kb \in {"integer", "string"}}

\* n objects, each the required property a of the one before, around a string.
NestedObjects(n) ==
  [i \in 1..(n + 1) |->
     IF i <= n THEN [PlainSchema EXCEPT !.type = "object", !.required = <<"a">>,
                                       !.hasProps = TRUE,
                                       !.properties = [k \in {"a"} |-> i + 1]]
     ELSE LeafSchema("string")]

SampleInputs ==
  {h \in RootSchemas :
     /\ h[1].given = "self" => h[1].has \cap {"const", "enum", "default"} # {}
     /\ ~h[1].hasProps => DOMAIN h[1].properties = {}}
  \cup {NestedObjects(n) : n \in (maxSampleDepth - 1)..(maxSampleDepth + 1 + MaxDeeper)}

\* A JSON value: t is its kind, n its number or length, kids its members.
Value(t, n, kids) == [t |-> t, n |-> n, kids |-> kids]

NoKids == [k \in {} |-> 0]

\* props && props[k]: the schema of a key, 0 when there is none
propertySchema(s, k) ==
  IF s.hasProps /\ k \in DOMAIN s.properties THEN s.properties[k] ELSE 0

\* lines 25-28 without the filter by the declared keys
chosen_AllRequired(s) ==
  LET keys == IF s.hasProps THEN DOMAIN s.properties ELSE {}
      required == s.required
  IN IF required # <<>> THEN {required[i] : i \in 1..Min(limit, Len(required))}
     ELSE keys

\* lines 25-30: chosen.slice(0, limit), as the set of its keys
chosen(s) ==
  LET keys == IF s.hasProps THEN DOMAIN s.properties ELSE {}
      required == s.required
      filtered == SelectSeq(required, LAMBDA k : k \in keys)
  IN IF required # <<>> THEN {filtered[i] : i \in 1..Min(limit, Len(filtered))}
     ELSE keys

\* sampleJsonFromSchema (5-63) on the object ref of the schema h; ref = 0 is
\* a schema that is not an object
RECURSIVE sampleJsonFromSchema(_, _, _)
sampleJsonFromSchema(h, ref, depth) ==
  LET s == IF ref = 0 THEN PlainSchema ELSE h[ref]
      given == Value(IF s.given = "self" THEN "self" ELSE "given", 0, NoKids)
  IN IF depth > maxSampleDepth THEN Value("object", 0, NoKids)
     ELSE IF "const" \in s.has THEN given
     ELSE IF "enum" \in s.has THEN given
     ELSE IF "default" \in s.has THEN given
     ELSE IF "union" \in s.has THEN sampleJsonFromSchema(h, s.union, depth + 1)
     ELSE IF s.type = "object" \/ s.hasProps
       THEN Value("object", 0,
                  [k \in chosen(s) |-> sampleJsonFromSchema(h, propertySchema(s, k), depth + 1)])
     ELSE IF s.type = "array" \/ s.items # 0
       THEN Value("array", Min(3, s.minItems),
                  [k \in (IF s.minItems >= 3 THEN {"0", "1", "2"} ELSE {}) |->
                     sampleJsonFromSchema(h, s.items, depth + 1)])
     ELSE IF s.type = "integer"
       THEN Value("integer", IF s.hasMinimum THEN s.minimum ELSE 1, NoKids)
     ELSE IF s.type = "string"
       THEN Value("string", Min(16, IF s.minLength > 1 THEN s.minLength ELSE 1), NoKids)
     ELSE Value("object", 0, NoKids)

InitSample ==
  /\ sjIn = <<>>
  /\ sjOut = Value("none", 0, NoKids)

\* sampleJsonFromSchema(schema, 0), as summarizeCapturedToolsSchemas (329)
\* and buildExampleArgsJson (721) call it
sampleSchema ==
  /\ sjIn = <<>>
  /\ \E h \in SampleInputs :
       /\ sjIn' = h
       /\ sjOut' = sampleJsonFromSchema(h, 1, 0)

(***************************************************************************)
(* Model discovery (providers/models)                                      *)
(***************************************************************************)

\* Bound: the model entries of a response body.
MaxIds == 2

\* makeUpstreamHttpError(resp, {label, maxChars: 300})
maxChars == 300

\* The providers asked for their models.  base: what the base URL holds of a
\* version segment; auth: an api key or headers are configured.
ModelProviders ==
  [type : {"openai_compatible", "openai_responses", "anthropic", "gemini_ai_studio", "other"},
   base : {"", "/v1", "/v1beta"}, auth : BOOLEAN]

\* A URL joinBaseUrl(b, path) returns, by the path joined.
Url(path) == path

\* lines 76-77, 93-94 and 110-111: the candidate URLs of a provider
candidateUrls(provider) ==
  IF provider.type = "gemini_ai_studio"
    THEN <<Url("models")>> \o (IF provider.base # "/v1beta" THEN <<Url("v1beta/models")>> ELSE <<>>)
    \* "/v1beta" includes "/v1"
    ELSE <<Url("models")>> \o (IF provider.base = "" THEN <<Url("v1/models")>> ELSE <<>>)

\* uniqKeepOrder (27-37)
RECURSIVE uniqKeepOrder(_)
uniqKeepOrder(xs) ==
  IF xs = <<>> THEN <<>>
  ELSE LET out == uniqKeepOrder(SubSeq(xs, 1, Len(xs) - 1))
           it == xs[Len(xs)]
       IN IF it = "" \/ InSeq(it, out) THEN out ELSE Append(out, it)

\* The bodies of a 200 response: under which key the list is, and its ids.
IdLists == UNION {[1..k -> {"m1", "m2", ""}] : k \in 0..MaxIds}

Bodies == [key : {"data", "models", "none"}, ids : IdLists]

\* parseModelIds (39-52)
parseModelIds(json) == IF json.key = "none" THEN <<>> ELSE uniqKeepOrder(json.ids)

\* What fetchWithRetry resolves to or throws: a response with its status and
\* body; status 0 stands for a rejected fetch.
HttpResponses ==
  {[status |-> 200, json |-> b] : b \in Bodies}
  \cup {[status |-> st, json |-> [key |-> "none", ids |-> <<>>]] : st \in {0, 404, 500}}

\* line 60 with no status recovered
recovers_Never(status) == FALSE

\* line 60 with every status recovered
recovers_Always(status) == TRUE

\* line 60: if (resp.status === 404) continue
recovers(status) == status = 404

NoDiscovery == [provider |-> [type |-> "other", base |-> "", auth |-> FALSE],
                urls |-> <<>>, i |-> 0, tried |-> <<>>, responses |-> <<>>]

NoModels == [settled |-> FALSE, ok |-> FALSE, models |-> <<>>, error |-> "none", status |-> 0,
             maxChars |-> 0]

Resolved(models) == [NoModels EXCEPT !.settled = TRUE, !.ok = TRUE, !.models = models]

Threw(error, status, chars) ==
  [NoModels EXCEPT !.settled = TRUE, !.error = error, !.status = status, !.maxChars = chars]

InitModels ==
  /\ mdPc = "idle"
  /\ md = NoDiscovery
  /\ mdResult = NoModels

\* lines 56-58 for the candidate i, or line 68 when there is none left
tryUrl(d, i) ==
  IF i <= Len(d.urls)
    THEN /\ md' = [d EXCEPT !.i = i, !.tried = Append(@, d.urls[i])]
         /\ mdPc' = "fetch"
         /\ mdResult' = NoModels
    ELSE /\ md' = [d EXCEPT !.i = i]
         /\ mdPc' = "done"
         /\ mdResult' = Threw("404 or no result", 0, 0)

\* fetchProviderModels (135-161) with the fetcher of the provider's type, up
\* to the first request of fetchModelsWithFallback
fetchProviderModels ==
  /\ mdPc = "idle"
  /\ \E provider \in ModelProviders :
       LET d == [NoDiscovery EXCEPT !.provider = provider,
                                    !.urls = uniqKeepOrder(candidateUrls(provider))]
       IN IF provider.type = "other" \/ ~provider.auth
            THEN /\ md' = [NoDiscovery EXCEPT !.provider = provider]
                 /\ mdPc' = "done"
                 /\ mdResult' = Threw(IF provider.type = "other" THEN "unknown type"
                                      ELSE "apiKey not configured", 0, 0)
            ELSE tryUrl(d, 1)

\* fetchModelsWithFallback lines 58-67: the awaited request settles
fetchModelsResponse ==
  /\ mdPc = "fetch"
  /\ \E resp \in HttpResponses :
       LET d == [md EXCEPT !.responses = Append(@, resp)]
           models == parseModelIds(resp.json)
       IN IF resp.status = 0
            THEN /\ md' = d /\ mdPc' = "done" /\ mdResult' = Threw("fetch failed", 0, 0)
          ELSE IF resp.status # 200
            THEN IF recovers(resp.status) THEN tryUrl(d, d.i + 1)
                 ELSE /\ md' = d /\ mdPc' = "done"
                      /\ mdResult' = Threw("upstream http error", resp.status, maxChars)
          ELSE IF models # <<>>
            THEN /\ md' = d /\ mdPc' = "done" /\ mdResult' = Resolved(models)
          ELSE /\ md' = d /\ mdPc' = "done" /\ mdResult' = Threw("no models in response", 0, 0)

(***************************************************************************)
(* The model a provider is probed with (selfTestProvider, lines 924-1140)  *)
(***************************************************************************)

\* Bounds: the declared models of a provider and the models fetched.
MaxDeclared == 2

MaxFetched == 2

\* normalizeString: the string trimmed ("" for what is no string)
normalizeString(x) ==
  CASE x = " " -> ""
    [] x = " d" -> "d"
    [] x = " m2" -> "m2"
    [] x = " f2" -> "f2"
    [] OTHER -> x

DefaultModels == {"", " ", "d", " d"}

DeclaredModels == UNION {[1..k -> {"", "m1", " m2"}] : k \in 0..MaxDeclared}

FetchedModels == UNION {[1..k -> {"", "f1", " f2"}] : k \in 0..MaxFetched}

\* ms.map(normalizeString).find(Boolean), "" standing for undefined
RECURSIVE findNonEmpty(_)
findNonEmpty(xs) ==
  IF xs = <<>> THEN ""
  ELSE IF normalizeString(Head(xs)) # "" THEN normalizeString(Head(xs))
  ELSE findNonEmpty(Tail(xs))

\* pickProviderModel with the fetched list consulted before the declared one
pickProviderModelName_FetchedFirst(provider, fetchedModels) ==
  IF normalizeString(provider.defaultModel) # "" THEN normalizeString(provider.defaultModel)
  ELSE IF findNonEmpty(fetchedModels) # "" THEN findNonEmpty(fetchedModels)
  ELSE findNonEmpty(provider.models)

\* pickProviderModel (lines 453-461), by the name it returns
pickProviderModelName(provider, fetchedModels) ==
  IF normalizeString(provider.defaultModel) # "" THEN normalizeString(provider.defaultModel)
  ELSE IF findNonEmpty(provider.models) # "" THEN findNonEmpty(provider.models)
  ELSE findNonEmpty(fetchedModels)

\* The calls of selfTestProvider that take the model, in the order of their
\* lines: 943, 960, 986, 1009, 1025, 1064, 1092, 1140.
ProviderCalls ==
  <<"completeTextByProvider", "streamTextByProvider", "completeTextByProvider",
    "completeTextByProvider", "chatStreamByProvider", "realToolsToolRoundtripByProvider",
    "chatStreamByProvider", "chatStreamByProvider">>

NoPick == [provider |-> [defaultModel |-> "", models |-> <<>>], realTools |-> FALSE,
           fetchedOk |-> FALSE, fetched |-> <<>>, model |-> "", tests |-> <<>>,
           site |-> 0, calls |-> <<>>]

InitPickModel ==
  /\ pmPc = "idle"
  /\ pm = NoPick

\* selfTestProvider up to the await of line 924; realTools: captured tool
\* definitions are there and their schemas convert (lines 1037-1064)
selfTestProviderStart ==
  /\ pmPc = "idle"
  /\ \E dm \in DefaultModels, ms \in DeclaredModels, realTools \in BOOLEAN :
       pm' = [NoPick EXCEPT !.provider = [defaultModel |-> dm, models |-> ms],
                            !.realTools = realTools]
  /\ pmPc' = "models"

\* selfTestProvider lines 925-939: the model list settled
selfTestProviderModels ==
  /\ pmPc = "models"
  /\ \E ok \in BOOLEAN, fetched \in FetchedModels :
       LET models == IF ok THEN fetched ELSE <<>>
           model == normalizeString(pickProviderModelName(pm.provider, models))
           p1 == [pm EXCEPT !.fetchedOk = ok, !.fetched = fetched, !.model = model,
                            !.tests = <<[name |-> "models", ok |-> ok]>>]
       IN /\ ~ok => fetched = <<>>
          /\ IF model = ""
               THEN /\ pm' = [p1 EXCEPT !.tests = Append(@, [name |-> "model", ok |-> FALSE])]
                    /\ pmPc' = "done"
               ELSE /\ pm' = [p1 EXCEPT !.site = 1]
                    /\ pmPc' = "calls"

\* The site after the call of site k: the real-tools round trip is skipped
\* without captured tools, and the probe with tools returns (line 1095 and
\* line 1112) or goes on to the tool round trip.
nextSite(k, realTools, goesOn) ==
  IF k = 5 /\ ~realTools THEN 7
  ELSE IF k = 7 /\ ~goesOn THEN Len(ProviderCalls) + 1
  ELSE k + 1

\* selfTestProvider lines 941-1140: the next call that takes the model
selfTestProviderCall ==
  /\ pmPc = "calls"
  /\ \E goesOn \in BOOLEAN :
       LET site == nextSite(pm.site, pm.realTools, goesOn)
       IN /\ pm' = [pm EXCEPT !.site = site,
                               !.calls = Append(@, [fn |-> ProviderCalls[pm.site], model |-> pm.model])]
          /\ pmPc' = IF site > Len(ProviderCalls) THEN "done" ELSE "calls"

(***************************************************************************)
(* The scratch directory of selfTestToolsModelExec (tools-model.js)        *)
(***************************************************************************)

\* Bound: the tool steps between ensureDir and the finally block.
MaxSteps == 4

NoScratch == [workspace |-> FALSE, created |-> FALSE, exists |-> FALSE, step |-> 0,
              failed |-> {}, thrown |-> "none", rmAttempts |-> 0, rm |-> "none",
              settled |-> FALSE, ok |-> FALSE, error |-> "none"]

InitScratch ==
  /\ scPc = "idle"
  /\ sc = NoScratch

\* selfTestToolsModelExec up to line 506: without a workspace folder the
\* probe returns before anything is created (line 466)
toolsExecStart ==
  /\ scPc = "idle"
  /\ \E workspace \in BOOLEAN :
       IF workspace
         THEN /\ sc' = [NoScratch EXCEPT !.workspace = TRUE]
              /\ scPc' = "ensureDir"
         ELSE /\ sc' = [NoScratch EXCEPT !.settled = TRUE]
              /\ scPc' = "returned"

\* try { ... } without its finally block: an error leaves the function
afterTry_NoFinally(thrown) == IF thrown = "none" THEN "finally" ELSE "propagated"

\* lines 506 and 943: try { ... } finally { ... }, on every way out of the try
afterTry(thrown) == "finally"

\* Where the function is once the try block was left with `thrown`.
LeaveTry(s, thrown) ==
  /\ scPc' = afterTry(thrown)
  /\ sc' = IF scPc' = "finally" THEN [s EXCEPT !.thrown = thrown]
           ELSE [s EXCEPT !.thrown = thrown, !.settled = TRUE, !.error = thrown]

\* line 507: await ensureDir(scratchAbsDir)
ensureDir ==
  /\ scPc = "ensureDir"
  /\ \E made \in BOOLEAN :
       IF made
         THEN /\ sc' = [sc EXCEPT !.created = TRUE, !.exists = TRUE, !.step = 1]
              /\ scPc' = "steps"
         ELSE LeaveTry(sc, "ensureDir")

\* lines 509-942: one tool step; the tool answers, fails (mark) or the step
\* throws
toolsExecStep ==
  /\ scPc = "steps"
  /\ \E outcome \in {"ok", "failed", "throws"} :
       LET s == IF outcome = "failed" THEN [sc EXCEPT !.failed = @ \cup {sc.step}] ELSE sc
       IN IF outcome = "throws" THEN LeaveTry(s, "step")
          ELSE IF sc.step = MaxSteps THEN LeaveTry(s, "none")
          ELSE /\ sc' = [s EXCEPT !.step = @ + 1]
               /\ scPc' = "steps"

\* What rmPathRecursive (50-70) goes through: fs.promises.rm removes; or it
\* throws or is missing and the fallback removes, meets a failing stat or
\* readdir, or a failing rmdir.
RmOutcomes == {"rm", "fallback", "stat throws", "rmdir fails"}

\* lines 943-968: the finally block with rmPathRecursive, then the result or
\* the error of the try block
rmPathRecursive ==
  /\ scPc = "finally"
  /\ \E outcome \in RmOutcomes :
       LET s == [sc EXCEPT !.rmAttempts = @ + 1, !.rm = outcome,
                           !.exists = @ /\ outcome \in {"stat throws", "rmdir fails"},
                           !.settled = TRUE]
       IN /\ outcome = "fallback" => sc.exists
          /\ IF sc.thrown = "none"
               THEN /\ sc' = [s EXCEPT !.ok = s.failed = {}]
                    /\ scPc' = "returned"
               ELSE /\ sc' = [s EXCEPT !.error = sc.thrown]
                    /\ scPc' = "propagated"

(***************************************************************************)
(* collectChatStream (lines 250-263)                                       *)
(***************************************************************************)

\* collectChatStream(gen, { maxChunks = 500 } = {})
maxChunks == 500

\* Bound: the chunks a stream yields after its run of plain text chunks.
MaxTail == 2

\* A chunk: text is a string or not (hasText), nodes an array or not
\* (hasNodes), the key stop_reason is there or not (hasStop), its value
\* "null" standing for null.
Chunks ==
  [hasText : {TRUE}, text : {<<>>, <<"b", "c">>}, hasNodes : {FALSE}, nodes : {<<>>},
   hasStop : BOOLEAN, stop_reason : {"null", "end_turn"}]
  \cup [hasText : {FALSE}, text : {<<>>}, hasNodes : {TRUE}, nodes : {<<"n1">>, <<"n2", "n3">>},
         hasStop : BOOLEAN, stop_reason : {"null", "tool_use"}]

\* The plain text chunk a stream begins with a run of.
TextChunk == [hasText |-> TRUE, text |-> <<"a">>, hasNodes |-> FALSE, nodes |-> <<>>,
              hasStop |-> FALSE, stop_reason |-> "null"]

\* The lengths of that run.
Runs == {0, maxChunks - 1, maxChunks}

NoCollect == [run |-> 0, tail |-> <<>>, finished |-> FALSE, chunks |-> 0, nodes |-> <<>>,
              text |-> <<>>, stop_reason |-> "null"]

InitCollect ==
  /\ ccPc = "idle"
  /\ cc = NoCollect

\* lines 250-254
collectChatStream ==
  /\ ccPc = "idle"
  /\ \E run \in Runs : cc' = [NoCollect EXCEPT !.run = run]
  /\ ccPc' = "loop"

\* line 256 without the break
capped_Never(count) == FALSE

\* line 256: if (chunks.length >= maxChunks) break
capped(count) == count >= maxChunks

\* lines 255-260 for the chunk ch
collect(c, ch) ==
  IF capped(c.chunks) THEN c
  ELSE [c EXCEPT !.chunks = @ + 1,
                 !.text = IF ch.hasText THEN @ \o ch.text ELSE @,
                 !.nodes = IF ch.hasNodes THEN @ \o ch.nodes ELSE @,
                 !.stop_reason = IF ch.hasStop THEN ch.stop_reason ELSE @]

\* One turn of the for await loop: the generator yields a chunk
forAwaitChunk ==
  /\ ccPc = "loop"
  /\ IF cc.chunks < cc.run
       THEN /\ cc' = collect(cc, TextChunk)
            /\ ccPc' = "loop"
       ELSE /\ Len(cc.tail) < MaxTail
            /\ \E ch \in Chunks :
                 /\ cc' = collect([cc EXCEPT !.tail = Append(@, ch)], ch)
                 /\ ccPc' = IF capped(cc.chunks) THEN "returned" ELSE "loop"

\* The generator is done: line 262
streamFinished ==
  /\ ccPc = "loop"
  /\ cc.chunks >= cc.run
  /\ cc' = [cc EXCEPT !.finished = TRUE]
  /\ ccPc' = "returned"

(***************************************************************************)
(* The request path of a chat stream (shim.js byokChatStream and the       *)
(* official-context injections)                                            *)
(***************************************************************************)

\* Bound: the requests handled one after the other.
MaxRequests == 2

\* while (pages < 3 ...
maxPages == 3

CanvasIds == {"c1"}

\* A request. empty: message, nodes, chat history and request nodes are all
\* empty; toolDefs: the set of tool definitions it carries, 0 for none;
\* canvasId: its canvas_id; retrieval, external: the request passes the tests
\* before the respective official call; type: the type of its provider.  The
\* last three are drawn where the handler first reads them.
ChatRequests ==
  [empty : BOOLEAN, toolDefs : 0..2, retrieval : {FALSE}, canvasId : {""},
   external : {FALSE}, type : {"unknown"}]

NoChat ==
  [no |-> 0, ep |-> "none",
   req |-> [empty |-> TRUE, toolDefs |-> 0, retrieval |-> FALSE, canvasId |-> "",
            external |-> FALSE, type |-> "unknown"],
   failed |-> {}, calls |-> <<>>, posts |-> <<>>, pages |-> 0, fromCache |-> 0,
   injected |-> {}, chunks |-> <<>>, outcome |-> "none"]

InitChatStream ==
  /\ csPc = "idle"
  /\ cs = NoChat
  /\ CONTEXT_CANVAS_CACHE = {}
  /\ lastCaptured = 0
  /\ csServed = 0

\* The steps of the request path whose errors are caught, with none caught.
caught_None(step) == FALSE

\* The try/catch blocks of the request path: shim.js 415-423 (capture),
\* 435-439 (history summary), 1133-1155, 1169-1208, 1236-1277 (injections),
\* 610-618 (the completion of /next_edit_loc)
caught(step) ==
  step \in {"capture", "historySummary", "codebaseRetrieval", "contextCanvas",
            "externalSources", "nextEditLocLlm"}

\* The handler ends: normally, or with the error of `step` when that is not
\* caught.
Settle(c, outcome) ==
  /\ cs' = [c EXCEPT !.outcome = outcome]
  /\ csPc' = "done"

\* A collaborator of `step` threw: the handler goes on at `next` when the
\* error is caught.
Thrown(c, step) == [c EXCEPT !.failed = @ \cup {step}]

\* shim.js 1000 with no status retried
retries_Never(status) == FALSE

\* shim.js 1000: if (!result.ok && (result.status === 400 || result.status === 422))
retries(status) == status \in {400, 422}

\* byokChatStream 447-468: the backend adapter is next
ToBackend(c) ==
  /\ cs' = c
  /\ csPc' = "backend"

\* maybeInjectOfficialExternalSources up to its first await (1214-1232)
ToExternal(c) ==
  \E external \in BOOLEAN :
    IF external THEN cs' = [c EXCEPT !.req.external = TRUE] /\ csPc' = "externalSources"
    ELSE ToBackend(c)

\* getCanvasFromCache that finds nothing
getCanvasFromCache_Miss(cache, canvasId) == {}

\* getCanvasFromCache (1099-1105) on the entry getCanvasCacheEntry left
getCanvasFromCache(cache, canvasId) == {e \in cache : e.id = canvasId}

\* maybeInjectOfficialContextCanvas up to its first await (1158-1177) with
\* getCanvasCacheEntry (1064-1074); expired: the entry is older than its TTL
ToCanvas(c) ==
  \E canvasId \in {"", "c1"} :
    IF canvasId = "" THEN ToExternal(c) /\ UNCHANGED CONTEXT_CANVAS_CACHE
    ELSE \E expired \in BOOLEAN :
           LET cache == IF expired THEN {} ELSE CONTEXT_CANVAS_CACHE
               hit == getCanvasFromCache(cache, canvasId)
               c1 == [c EXCEPT !.req.canvasId = canvasId]
           IN /\ CONTEXT_CANVAS_CACHE' = cache
              /\ IF hit # {}
                   THEN ToExternal([c1 EXCEPT !.fromCache = (CHOOSE e \in hit : TRUE).by,
                                              !.injected = @ \cup {"contextCanvas"}])
                   ELSE cs' = c1 /\ csPc' = "contextCanvas"

\* maybeInjectOfficialCodebaseRetrieval up to its first await (1106-1133)
ToRetrieval(c) ==
  \E retrieval \in BOOLEAN :
    IF retrieval
      THEN /\ cs' = [c EXCEPT !.req.retrieval = TRUE]
           /\ csPc' = "codebaseRetrieval"
           /\ UNCHANGED CONTEXT_CANVAS_CACHE
      ELSE ToCanvas(c)

\* An empty test that never holds
isEmptyRequest_Never(req) == FALSE

\* byokChatStream 424-430: !msg && !hasNodes && !hasHistory && !hasReqNodes
isEmptyRequest(req) == req.empty

\* byokChatStream 411-434: the request, the capture of its tool definitions,
\* and the answer to an empty request
byokChatStream ==
  /\ csPc \in {"idle", "done"}
  /\ csServed < MaxRequests
  /\ csServed' = csServed + 1
  /\ \E req \in ChatRequests, captureThrows \in BOOLEAN :
       LET c0 == [NoChat EXCEPT !.no = csServed + 1, !.ep = "/chat-stream", !.req = req]
           c == IF captureThrows THEN Thrown(c0, "capture") ELSE c0
       IN /\ lastCaptured' = IF ~captureThrows /\ req.toolDefs # 0 THEN req.toolDefs
                             ELSE lastCaptured
          /\ IF captureThrows /\ ~caught("capture") THEN Settle(c, "threw")
             ELSE IF isEmptyRequest(req)
               THEN Settle([c EXCEPT !.chunks = <<[text |-> "", stop_reason |-> "end_turn"]>>],
                           "ended")
             ELSE cs' = c /\ csPc' = "historySummary"
  /\ UNCHANGED CONTEXT_CANVAS_CACHE

\* maybeHandleCallApi 601-626: /next_edit_loc, the completion caught
nextEditLoc ==
  /\ csPc \in {"idle", "done"}
  /\ csServed < MaxRequests
  /\ csServed' = csServed + 1
  /\ \E llm \in {"candidates", "none", "throws"} :
       LET c0 == [NoChat EXCEPT !.no = csServed + 1, !.ep = "/next_edit_loc",
                                !.calls = <<"byokCompleteText">>]
       IN IF llm = "throws"
            THEN IF caught("nextEditLocLlm")
                   THEN Settle([Thrown(c0, "nextEditLocLlm") EXCEPT !.injected = {"baseline"}],
                               "ended")
                   ELSE Settle(Thrown(c0, "nextEditLocLlm"), "threw")
            ELSE Settle([c0 EXCEPT !.injected = IF llm = "none" THEN {"baseline"}
                                                ELSE {"merged"}], "ended")
  /\ UNCHANGED <<CONTEXT_CANVAS_CACHE, lastCaptured>>

\* byokChatStream 435-439: maybeSummarizeAndCompactAugmentChatRequest settled
summarizeSettled ==
  /\ csPc = "historySummary"
  /\ \E throws \in BOOLEAN :
       LET c == [cs EXCEPT !.calls = Append(@, "historySummary")]
       IN IF throws
            THEN IF caught("historySummary") THEN ToRetrieval(Thrown(c, "historySummary"))
                 ELSE Settle(Thrown(c, "historySummary"), "threw")
                      /\ UNCHANGED CONTEXT_CANVAS_CACHE
            ELSE ToRetrieval(c)
  /\ UNCHANGED <<lastCaptured, csServed>>

\* fetchOfficialCodebaseRetrieval 986-1005: a postOnce settled; status 0
\* stands for a rejected fetch
retrievalPostOnce ==
  /\ csPc = "codebaseRetrieval"
  /\ \E status \in {0, 200, 400, 422, 500} :
       LET c == [cs EXCEPT !.calls = Append(@, "codebaseRetrieval"),
                           !.posts = Append(@, status)]
           first == cs.posts = <<>>
           \* the result line 1004 looks at: a failed retry leaves the first
           result == IF first THEN status ELSE IF status = 200 THEN 200 ELSE cs.posts[1]
       IN IF status # 0 /\ first /\ retries(status)
            THEN cs' = c /\ csPc' = "codebaseRetrieval" /\ UNCHANGED CONTEXT_CANVAS_CACHE
          ELSE IF status # 0 /\ result = 200
            THEN ToCanvas([c EXCEPT !.injected = @ \cup {"codebaseRetrieval"}])
          ELSE IF caught("codebaseRetrieval") THEN ToCanvas(Thrown(c, "codebaseRetrieval"))
          ELSE Settle(Thrown(c, "codebaseRetrieval"), "threw") /\ UNCHANGED CONTEXT_CANVAS_CACHE
  /\ UNCHANGED <<lastCaptured, csServed>>

\* maybeInjectOfficialContextCanvas 1178-1189: a page of canvases arrived,
\* or fetchOfficialContextCanvasList threw
canvasListSettled ==
  /\ csPc = "contextCanvas"
  /\ \E canvases \in SUBSET CanvasIds, more \in BOOLEAN, throws \in BOOLEAN :
       LET c == [cs EXCEPT !.calls = Append(@, "contextCanvas")]
           written == {[id |-> id, by |-> cs.no] : id \in canvases}
           cache == {e \in CONTEXT_CANVAS_CACHE : e.id \notin canvases} \cup written
       IN IF throws
            THEN /\ canvases = {} /\ ~more
                 /\ UNCHANGED CONTEXT_CANVAS_CACHE
                 /\ IF caught("contextCanvas") THEN ToExternal(Thrown(c, "contextCanvas"))
                    ELSE Settle(Thrown(c, "contextCanvas"), "threw")
            ELSE /\ CONTEXT_CANVAS_CACHE' = cache
                 /\ IF c.req.canvasId \in canvases
                         \/ \E e \in CONTEXT_CANVAS_CACHE : e.id = c.req.canvasId
                      THEN ToExternal([c EXCEPT !.injected = @ \cup {"contextCanvas"}])
                    ELSE IF more /\ cs.pages + 1 < maxPages
                      THEN cs' = [c EXCEPT !.pages = @ + 1] /\ csPc' = "contextCanvas"
                    ELSE ToExternal(c)
  /\ UNCHANGED <<lastCaptured, csServed>>

\* maybeInjectOfficialExternalSources 1236-1277: the implicit lookup (its
\* error is caught at 1244) and the search
externalSourcesSettled ==
  /\ csPc = "externalSources"
  /\ \E implicitThrows \in BOOLEAN, search \in {"results", "none", "throws", "skipped"} :
       LET c == [cs EXCEPT !.calls = @ \o <<"implicitExternalSources">>
                                        \o (IF search = "skipped" THEN <<>>
                                            ELSE <<"searchExternalSources">>)]
           c1 == IF implicitThrows THEN Thrown(c, "externalSources") ELSE c
       IN IF (implicitThrows \/ search = "throws") /\ ~caught("externalSources")
            THEN Settle(Thrown(c, "externalSources"), "threw")
          ELSE IF search = "throws" THEN ToBackend(Thrown(c1, "externalSources"))
          ELSE IF search = "results"
            THEN ToBackend([c1 EXCEPT !.injected = @ \cup {"externalSources"}])
          ELSE ToBackend(c1)
  /\ UNCHANGED <<CONTEXT_CANVAS_CACHE, lastCaptured, csServed>>

\* byokChatStream 447-468: the chunks of the provider's adapter, an error
\* of which leaves the generator
backendStream ==
  /\ csPc = "backend"
  /\ \E type \in {"openai_compatible", "unknown"}, adapter \in {"ends", "throws"} :
       LET c == [cs EXCEPT !.calls = Append(@, "backend"), !.req.type = type]
       IN IF type = "unknown"
            THEN /\ adapter = "throws"
                 /\ Settle(Thrown([cs EXCEPT !.req.type = type], "backend"), "threw")
          ELSE IF adapter = "throws"
            THEN Settle([Thrown(c, "backend") EXCEPT
                           !.chunks = <<[text |-> "h", stop_reason |-> ""]>>], "threw")
          ELSE Settle([c EXCEPT !.chunks = <<[text |-> "h", stop_reason |-> ""],
                                            [text |-> "", stop_reason |-> "end_turn"]>>],
                      "ended")
  /\ UNCHANGED <<CONTEXT_CANVAS_CACHE, lastCaptured, csServed>>

(***************************************************************************)
(* The deadlines handed to the sub-calls of a request and of a self-test   *)
(* run.  Milliseconds are integers; Math.floor(x * 0.5) is x \div 2.       *)
(***************************************************************************)

Max(x, y) == IF x > y THEN x ELSE y

\* shim.js 57
DEFAULT_UPSTREAM_TIMEOUT_MS == 120000

\* shim.js 747, 748
OFFICIAL_CODEBASE_RETRIEVAL_TIMEOUT_MS == 12000

OFFICIAL_CONTEXT_CANVAS_TIMEOUT_MS == 4000

\* The timeoutMs a caller passes; 0 stands for a missing or invalid one.
Timeouts ==
  {0, 1, 299, 500, 799, 800, 1000, 1499, 1500, 1999, 2000, 3999, 4000, 6000, 8000,
   10000, 14999, 16000, 20000, 24000, 30000, 32000, 60000, 80000, 120000, 200000}

\* The time spent in the canvas loop before a page is requested
Elapsed == {0, 300, 599, 700, 3700, 3799}

NoDeadline == [site |-> "none", given |-> 0, handed |-> {}]

InitDeadlines == dl = NoDeadline

Handed(sub, ms) == [sub |-> sub, ms |-> ms]

\* maybeHandleCallApi 502, maybeHandleCallApiStream 646
upstreamTimeout(timeoutMs) ==
  IF timeoutMs > 0 THEN timeoutMs ELSE DEFAULT_UPSTREAM_TIMEOUT_MS

\* lines 1121, 1178, 1236 of the three injections
hardTimeout(timeoutMs) == IF timeoutMs > 0 THEN timeoutMs ELSE 120000

\* maybeInjectOfficialCodebaseRetrieval 1122
retrievalTimeout(timeoutMs) ==
  Max(2000, Min(OFFICIAL_CODEBASE_RETRIEVAL_TIMEOUT_MS, hardTimeout(timeoutMs) \div 2))

\* maybeInjectOfficialContextCanvas 1179
canvasTimeout(timeoutMs) ==
  Max(800, Min(OFFICIAL_CONTEXT_CANVAS_TIMEOUT_MS, (hardTimeout(timeoutMs) * 15) \div 100))

\* maybeInjectOfficialContextCanvas 1184: deadline - Date.now() is t - elapsed
canvasRemaining(t, elapsed) == Max(300, t - elapsed)

\* maybeInjectOfficialExternalSources 1237, 1238, 1253
externalTimeout(timeoutMs) == Max(1500, Min(8000, hardTimeout(timeoutMs) \div 4))

implicitTimeout(t) == Max(1000, Min(3500, (t * 4) \div 10))

searchTimeout(t, explicit) == IF explicit THEN t ELSE Max(1500, t - implicitTimeout(t))

\* maybeHandleCallApi 502-517: /get-models asks the official get-models
getModelsDeadline ==
  \E timeoutMs \in Timeouts :
    LET t == upstreamTimeout(timeoutMs)
    IN dl' = [site |-> "get-models", given |-> timeoutMs,
              handed |-> {Handed("fetchOfficialGetModels", Min(12000, t))}]

\* maybeInjectOfficialCodebaseRetrieval 1121-1142 under the t of its caller
codebaseRetrievalDeadline ==
  \E timeoutMs \in Timeouts :
    LET t == upstreamTimeout(timeoutMs)
    IN dl' = [site |-> "codebaseRetrieval", given |-> timeoutMs,
              handed |-> {Handed("fetchOfficialCodebaseRetrieval", retrievalTimeout(t))}]

\* maybeInjectOfficialContextCanvas 1178-1185: a page is requested while
\* Date.now() < deadline - 200
contextCanvasDeadline ==
  \E timeoutMs \in Timeouts, elapsed \in Elapsed :
    LET t == canvasTimeout(upstreamTimeout(timeoutMs))
    IN /\ elapsed < t - 200
       /\ dl' = [site |-> "contextCanvas", given |-> timeoutMs,
                 handed |-> {Handed("fetchOfficialContextCanvasList",
                                    canvasRemaining(t, elapsed))}]

\* maybeInjectOfficialExternalSources 1236-1254: the implicit lookup when no
\* source ids came with the request, then the search
externalSourcesDeadline ==
  \E timeoutMs \in Timeouts, explicit \in BOOLEAN :
    LET t == externalTimeout(upstreamTimeout(timeoutMs))
    IN dl' = [site |-> "externalSources", given |-> timeoutMs,
              handed |-> (IF explicit THEN {}
                          ELSE {Handed("fetchOfficialImplicitExternalSources",
                                       implicitTimeout(t))})
                         \cup {Handed("fetchOfficialSearchExternalSources",
                                      searchTimeout(t, explicit))}]

\* runSelfTest 1267, 1303 and selfTestProvider 924 with fetchProviderModels
\* (models.js 137): the fetch of the tool definitions and model discovery
selfTestDeadlines ==
  \E timeoutMs \in Timeouts :
    LET t == IF timeoutMs > 0 THEN timeoutMs ELSE 30000
        m == Min(15000, t)
    IN dl' = [site |-> "selfTest", given |-> timeoutMs,
              handed |-> {Handed("fetchLocalToolDefinitionsFromUpstream", Min(20000, t)),
                          Handed("fetchProviderModels", IF m > 0 THEN m ELSE 15000)}]

(***************************************************************************)
(* The tool definitions of a self-test run (runSelfTest, global phase)     *)
(***************************************************************************)

\* Bound: how many runs of the self test are followed.
MaxRuns == 2

\* Bound: the length of a list of tool definitions that is captured or that
\* the upstream returns.
MaxCaptured == 2

CapturedLists ==
  UNION {[1..k -> {d \in ToolDefs : d.v = 1}] : k \in 0..MaxCaptured}

\* What the upstream exposes: no tools model ("notFound"), one whose
\* getToolDefinitions throws, or one that returns a list
HostAnswers ==
  {[kind |-> k, list |-> <<>>] : k \in {"notFound", "throws"}}
    \cup {[kind |-> "list", list |-> l] : l \in CapturedLists}

NoTest == [name |-> "none", ok |-> TRUE, count |-> 0]

\* captured0: capturedDefs0; host: "none" while the upstream was not asked,
\* else how it answered; toolDefs: toolDefsForSelfTest; source: toolDefsSource;
\* cacheAfter: the captured set as the global phase left it
NoGlobalPhase ==
  [run |-> 0, captured0 |-> <<>>, host |-> "none", toolDefs |-> <<>>, source |-> "none",
   test |-> NoTest, ok |-> TRUE, cacheAfter |-> <<>>]

InitGlobalPhase ==
  /\ gpPc = "idle"
  /\ gp = NoGlobalPhase
  /\ gpCaptured = <<>>

\* A run that asks the upstream tools model whatever was captured
needsUpstreamFetch_Always(toolDefs) == TRUE

\* runSelfTest 1301: if (!toolDefsForSelfTest.length)
needsUpstreamFetch(toolDefs) == Len(toolDefs) = 0

\* runSelfTest 1330-1351: report.global.capturedTools and the test
\* capturedToolsAvailable
capturedToolsAvailable(run, toolDefs, source, cache) ==
  LET capturedSummary == summarizeToolDefs(toolDefs)
  IN [run EXCEPT !.toolDefs = toolDefs, !.source = source, !.cacheAfter = cache,
                 !.test = [name |-> "capturedToolsAvailable",
                           ok |-> capturedSummary.count # 0,
                           count |-> capturedSummary.count],
                 !.ok = capturedSummary.count # 0]

\* byokChatStream 415-423: a chat request with tool definitions is handled,
\* between two runs or while a run awaits the upstream
chatCaptures ==
  /\ \E tool_definitions \in CapturedLists \ {<<>>} : gpCaptured' = tool_definitions
  /\ UNCHANGED <<gpPc, gp>>

\* runSelfTest 1290-1303, and 1324-1351 when the upstream is not asked
runSelfTestGlobal ==
  /\ gpPc = "idle"
  /\ gp.run < MaxRuns
  /\ LET run == [NoGlobalPhase EXCEPT !.run = gp.run + 1, !.captured0 = gpCaptured]
     IN IF needsUpstreamFetch(gpCaptured)
          THEN gp' = run /\ gpPc' = "fetchFromUpstream"
          ELSE /\ gp' = capturedToolsAvailable(run, gpCaptured, "captured", gpCaptured)
               /\ gpPc' = "idle"
  /\ UNCHANGED gpCaptured

\* runSelfTest 1303-1351 with fetchLocalToolDefinitionsFromUpstream
\* (tools-model.js 136-193) under withTimed: the upstream answered
fetchFromUpstreamSettled ==
  /\ gpPc = "fetchFromUpstream"
  /\ gpPc' = "idle"
  /\ \E answer \in HostAnswers :
       LET defs == dedupeToolDefsByName(answer.list)
           host == IF answer.kind # "list" THEN answer.kind
                   ELSE IF Len(defs) = 0 THEN "empty" ELSE "defs"
           run == [gp EXCEPT !.host = host]
       IN IF Len(defs) # 0
            THEN /\ gpCaptured' = defs
                 /\ gp' = capturedToolsAvailable(run, defs, "upstream(toolsModel)", defs)
            ELSE /\ gp' = capturedToolsAvailable(run, gp.toolDefs, gp.source, gpCaptured)
                 /\ UNCHANGED gpCaptured

(***************************************************************************)
(* The events of a self-test run: emit, log and the listener of the panel  *)
(***************************************************************************)

\* Bound: how many awaited steps (global tests, probes) of a run are followed.
MaxLogged == 2

\* The report as far as an event carries it
NoEventReport == [ok |-> TRUE, tests |-> 0, finished |-> FALSE]

\* events: the calls of onEvent in order; posts: what the listener of the
\* panel posted; swallowed: listener exceptions emit caught
NoEvents ==
  [run |-> 0, steps |-> 0, events |-> <<>>, posts |-> <<>>, swallowed |-> 0,
   report |-> NoEventReport, outcome |-> "none"]

InitEvents ==
  /\ evPc = "idle"
  /\ ev = NoEvents

\* An emit without the try/catch: the exception of the listener leaves it
emit_NoCatch(listenerThrows) == IF listenerThrows THEN "thrown" ELSE "delivered"

\* runSelfTest 1280-1284: try { onEvent(ev) } catch {}
emit(listenerThrows) == IF listenerThrows THEN "swallowed" ELSE "delivered"

\* createHandlers.runSelfTest, onEvent (part_000 228-232): selfTestLog for a
\* log event, selfTestDone with the report for a done event
onEvent(posts, event) ==
  IF event.type = "log" THEN Append(posts, [type |-> "selfTestLog", report |-> event.report])
  ELSE IF event.type = "done"
    THEN Append(posts, [type |-> "selfTestDone", report |-> event.report])
  ELSE posts

\* One call of emit(event) in the run e: the event reaches the listener, which
\* posts it or throws; a thrown exception that emit lets through ends the run
Emitted(e, event, listenerThrows) ==
  LET r == emit(listenerThrows)
      e1 == [e EXCEPT !.events = Append(@, event)]
  IN CASE r = "delivered" -> [e1 EXCEPT !.posts = onEvent(@, event)]
       [] r = "swallowed" -> [e1 EXCEPT !.swallowed = @ + 1]
       [] OTHER -> [e1 EXCEPT !.outcome = "threw"]

\* runSelfTest 1285: log(line) emits a log event, which carries no report
LogEvent == [type |-> "log", report |-> NoEventReport]

\* after an emit: the run goes on, or the exception ended it
AfterEmit(e, pc) ==
  /\ ev' = e
  /\ evPc' = IF e.outcome = "threw" THEN "idle" ELSE pc

\* runSelfTest 1264-1288: log("Self Test started.")
runSelfTestLogsStart ==
  /\ evPc = "idle"
  /\ ev.run < MaxRuns
  /\ \E listenerThrows \in BOOLEAN :
       AfterEmit(Emitted([NoEvents EXCEPT !.run = ev.run + 1], LogEvent, listenerThrows),
                 "running")

\* runSelfTest 1303-1436: an awaited step settles under withTimed, its test is
\* pushed to the report and a line is logged
stepLogs ==
  /\ evPc = "running"
  /\ ev.steps < MaxLogged
  /\ \E ok \in BOOLEAN, listenerThrows \in BOOLEAN :
       LET e == [ev EXCEPT !.steps = @ + 1, !.report.tests = @ + 1,
                           !.report.ok = IF ok THEN @ ELSE FALSE]
       IN AfterEmit(Emitted(e, LogEvent, listenerThrows), "running")

\* runSelfTest 1438-1442: finishedAtMs, the last log, the done event with
\* the report, return report
runSelfTestEmitsDone ==
  /\ evPc = "running"
  /\ \E logThrows \in BOOLEAN, doneThrows \in BOOLEAN :
       LET e0 == [ev EXCEPT !.report.finished = TRUE]
           e1 == Emitted(e0, LogEvent, logThrows)
           e2 == Emitted(e1, [type |-> "done", report |-> e0.report], doneThrows)
       IN IF e1.outcome = "threw" THEN AfterEmit(e1, "idle")
          ELSE IF e2.outcome = "threw" THEN AfterEmit(e2, "idle")
          ELSE AfterEmit([e2 EXCEPT !.outcome = "returned"], "idle")

(***************************************************************************)
(* findToolsModelDeep: the search for the tools model in the objects the   *)
(* upstream exposes (tools-model.js 78-126)                                 *)
(***************************************************************************)

\* The objects of a graph; "prim" is a value that is not an object (or a
\* property whose getter throws, which the search reads as null).
Objects == {"r", "a", "b"}

\* The values of the keys of an object, in the order of Object.keys
ChildLists ==
  {<<>>} \cup {<<x>> : x \in Objects \cup {"prim"}}
    \cup {<<x, y>> : x \in Objects \cup {"prim"}, y \in Objects}

\* More iterations of the while loop than any search of these graphs takes
Fuel == 12

\* isToolsModelCandidate (78-80): cands are the objects that have both
\* functions
isToolsModelCandidate(v, cands) == v \in cands

\* The state of a search.  q, seen: as in the code; dequeued: the objects the
\* loop took from q; expanded: those whose keys it read, with their depth;
\* enqueued: the entries ever put into q; result: "running", "null" or the
\* object returned
StartSearch(start) ==
  [q |-> <<[v |-> start, d |-> 0]>>, seen |-> {}, dequeued |-> <<>>, expanded |-> <<>>,
   enqueued |-> 1, result |-> "running"]

\* push (88-94)
push(st, v, d, maxNodes) ==
  IF v \in st.seen THEN st
  ELSE IF Cardinality(st.seen) >= maxNodes THEN st
  ELSE [st EXCEPT !.seen = @ \cup {v}, !.q = Append(@, [v |-> v, d |-> d]),
                  !.enqueued = @ + 1]

\* the for loop over the keys of an object at depth d (109-120), from key i
RECURSIVE forKeys(_, _, _, _, _, _)
forKeys(st, children, i, d, cands, maxNodes) ==
  IF i > Len(children) THEN st
  ELSE LET child == children[i]
       IN IF child = "prim" THEN forKeys(st, children, i + 1, d, cands, maxNodes)
          ELSE IF isToolsModelCandidate(child, cands) THEN [st EXCEPT !.result = child]
          ELSE forKeys(push(st, child, d + 1, maxNodes), children, i + 1, d, cands, maxNodes)

\* one iteration of the while loop (96-121)
whileStep(st, graph, cands, depthCap, maxNodes) ==
  LET cur == Head(st.q)
      s1 == [st EXCEPT !.q = Tail(@), !.dequeued = Append(@, cur.v)]
  IN IF isToolsModelCandidate(cur.v, cands) THEN [s1 EXCEPT !.result = cur.v]
     ELSE IF cur.d >= depthCap THEN s1
     ELSE forKeys([s1 EXCEPT !.expanded = Append(@, cur)], graph[cur.v], 1, cur.d,
                  cands, maxNodes)

RECURSIVE whileLoop(_, _, _, _, _, _)
whileLoop(st, fuel, graph, cands, depthCap, maxNodes) ==
  IF st.result # "running" \/ fuel = 0 THEN st
  ELSE IF st.q = <<>> THEN [st EXCEPT !.result = "null"]
  ELSE whileLoop(whileStep(st, graph, cands, depthCap, maxNodes), fuel - 1,
                 graph, cands, depthCap, maxNodes)

\* findToolsModelDeep(root, { maxDepth, maxNodes }) (82-126); depthCap is its
\* maxDepth
findToolsModelDeep(root, graph, cands, depthCap, maxNodes) ==
  IF root = "prim" THEN [StartSearch(root) EXCEPT !.q = <<>>, !.enqueued = 0, !.result = "null"]
  ELSE IF isToolsModelCandidate(root, cands)
    THEN [StartSearch(root) EXCEPT !.q = <<>>, !.enqueued = 0, !.result = root]
  ELSE whileLoop(StartSearch(root), Fuel, graph, cands, depthCap, maxNodes)

NoSearch ==
  [root |-> "prim", graph |-> [o \in Objects |-> <<>>], cands |-> {}, depthCap |-> 0,
   maxNodes |-> 0, out |-> findToolsModelDeep("prim", [o \in Objects |-> <<>>], {}, 0, 0),
   called |-> FALSE]

InitFindTools == ft = NoSearch

\* getToolsModelFromUpstreamOrNull / fetchLocalToolDefinitionsFromUpstream
\* (128-150): a call of findToolsModelDeep on what the upstream exposes
callFindToolsModelDeep ==
  /\ ~ft.called
  /\ \E root \in {"r", "prim"}, graph \in [Objects -> ChildLists],
        cand \in Objects \cup {"prim"}, depthCap \in 0..2, maxNodes \in 1..2 :
       LET cands == IF cand = "prim" THEN {} ELSE {cand}
       IN /\ root = "prim" => graph = NoSearch.graph
          /\ ft' = [root |-> root, graph |-> graph, cands |-> cands,
                    depthCap |-> depthCap, maxNodes |-> maxNodes,
                    out |-> findToolsModelDeep(root, graph, cands, depthCap, maxNodes),
                    called |-> TRUE]

(***************************************************************************)
(* /get-models under a byok route and mergeModels (shim.js 504-526,        *)
(* 752-762, 1280-1295)                                                     *)
(***************************************************************************)

\* Bound: how many models the official get-models answer lists.
MaxUpstream == 2

\* Bound: how many BYOK model names the configuration yields.
MaxByok == 2

\* Model names; "" stands for an entry without a usable name.
ModelIds == {"", "d", "m2"}

\* makeModelInfo (core/protocol): the model entry made from a name
makeModelInfo(name) == [name |-> name, made |-> TRUE]

\* An entry of the official answer
UpstreamModel(name) == [name |-> name, made |-> FALSE]

UpstreamLists ==
  UNION {[1..k -> {UpstreamModel(n) : n \in ModelIds}] : k \in 0..MaxUpstream}

ByokLists == UNION {[1..k -> ModelIds] : k \in 0..MaxByok}

\* What the official get-models request comes to: a JSON object, or one of
\* the failures of fetchOfficialGetModels (752-762)
FetchFailures == {"timeout", "non2xx", "nonjson"}

UpstreamAnswers ==
  [kind : {"json"}, models : UpstreamLists, default_model : {"", "d"}]
    \cup [kind : FetchFailures, models : {<<>>}, default_model : {""}]

NamesOf(models) == [i \in 1..Len(models) |-> models[i].name]

SeqRange(s) == {s[i] : i \in 1..Len(s)}

\* The loop of mergeModels (1284-1288) from position i on
RECURSIVE mergeLoop(_, _, _, _)
mergeLoop(models, existing, byokModelNames, i) ==
  IF i > Len(byokModelNames) THEN models
  ELSE LET name == byokModelNames[i] IN
    IF name = "" \/ name \in existing
    THEN mergeLoop(models, existing, byokModelNames, i + 1)
    ELSE mergeLoop(Append(models, makeModelInfo(name)), existing \cup {name},
                   byokModelNames, i + 1)

\* A merge that appends every BYOK name
mergeModels_AppendAll(base, byokModelNames, defaultModel) ==
  [default_model |-> defaultModel,
   models |-> base.models \o [i \in 1..Len(byokModelNames) |->
                                makeModelInfo(byokModelNames[i])]]

\* mergeModels (1280-1295); the feature flags are left out
mergeModels(base, byokModelNames, defaultModel) ==
  LET models == mergeLoop(base.models, SeqRange(NamesOf(base.models)) \ {""},
                          byokModelNames, 1)
      baseDefaultModel ==
        IF base.default_model # "" THEN base.default_model
        ELSE IF Len(models) > 0 /\ models[1].name # "" THEN models[1].name
        ELSE "unknown"
      preferredDefaultModel == normalizeString(defaultModel)
  IN [default_model |-> IF preferredDefaultModel # "" THEN preferredDefaultModel
                        ELSE baseDefaultModel,
      models |-> models]

\* The preferred default of the /get-models branch (506-511)
preferredDefault(byokModels, preferredByok) ==
  IF preferredByok \in SeqRange(byokModels) THEN preferredByok
  ELSE IF Len(byokModels) > 0 THEN byokModels[1] ELSE ""

\* A fallback that fails the request as the fetch did
localGetModels_Rethrow(byokModels, preferredByok) ==
  [kind |-> "throws", default_model |-> "", models |-> <<>>]

\* The fallback of the /get-models branch (521-525)
localGetModels(byokModels, preferredByok) ==
  LET p == preferredDefault(byokModels, preferredByok) IN
  [kind |-> "local",
   default_model |-> IF p # "" THEN p ELSE "unknown",
   models |-> [i \in 1..Len(byokModels) |-> makeModelInfo(byokModels[i])]]

NoGetModels ==
  [called |-> "none", upstream |-> [kind |-> "timeout", models |-> <<>>, default_model |-> ""],
   byokModels |-> <<>>, preferredByok |-> "", transformThrows |-> FALSE,
   result |-> [kind |-> "none", default_model |-> "", models |-> <<>>],
   again |-> <<>>]

InitGetModels == gm = NoGetModels

\* maybeHandleCallApi for /get-models under a byok route (504-526)
callApiGetModels ==
  /\ gm.called = "none"
  /\ \E upstream \in UpstreamAnswers, byokModels \in ByokLists,
        preferredByok \in ModelIds, transformThrows \in BOOLEAN :
       \* buildByokModelsFromConfig yields names of the form byok:<id>:<model>
       /\ "" \notin SeqRange(byokModels)
       /\ LET merged == mergeModels(upstream, byokModels,
                                 preferredDefault(byokModels, preferredByok))
          IN gm' = [NoGetModels EXCEPT
            !.called = "getModels", !.upstream = upstream,
            !.byokModels = byokModels, !.preferredByok = preferredByok,
            !.transformThrows = transformThrows,
            !.result =
              IF transformThrows
                THEN [kind |-> "throws", default_model |-> "", models |-> <<>>]
              ELSE IF upstream.kind = "json"
                THEN [kind |-> "merged", default_model |-> merged.default_model,
                      models |-> merged.models]
              ELSE localGetModels(byokModels, preferredByok)]

\* mergeModels called on an official answer, and once more on its result
callMergeModels ==
  /\ gm.called = "none"
  /\ \E upstream \in UpstreamAnswers, byokModels \in ByokLists,
        defaultModel \in DefaultModels :
       /\ upstream.kind = "json"
       /\ LET merged == mergeModels(upstream, byokModels, defaultModel) IN
          gm' = [NoGetModels EXCEPT
            !.called = "mergeModels", !.upstream = upstream,
            !.byokModels = byokModels, !.preferredByok = defaultModel,
            !.result = [kind |-> "merged", default_model |-> merged.default_model,
                        models |-> merged.models],
            !.again = mergeModels(merged, byokModels, defaultModel).models]

(***************************************************************************)
(* The tool calls of selfTestToolsModelExec and their results              *)
(* (tools-model.js 400-442, 444-968)                                       *)
(***************************************************************************)

\* Bound: how many tool definitions were captured.
MaxCapturedDefs == 2

\* Bound: how many times the steps reach callIfPresent.
MaxCalls == 3

\* Names of captured tools: two that the steps call, one that no step calls,
\* and "" for a definition without a name.
StepTools == {"save-file", "view"}

CapturedNames == StepTools \cup {"mcp-tool", ""}

CapturedDefs == UNION {[1..k -> CapturedNames] : k \in 0..MaxCapturedDefs}

\* What checkToolCallSafe does: the tools model has none, it answers truthy
\* or falsy, or it throws
SafeOutcomes == {"absent", "truthy", "falsy", "throws"}

\* What callTool does: a result, a result with isError, or it throws
CallOutcomes == {"ok", "isError", "throws"}

NoToolCall ==
  [name |-> "", thrown |-> FALSE, skipped |-> FALSE, ok |-> FALSE, detail |-> "",
   checkCalls |-> 0, callToolCalls |-> 0, safe |-> "absent", aborted |-> FALSE]

\* A toolsModelCallTool that executes whatever checkToolCallSafe says
toolsModelCallTool_NoGate(name, safe, call, aborted) ==
  [NoToolCall EXCEPT !.name = name, !.safe = safe, !.aborted = aborted,
                     !.checkCalls = IF safe = "absent" THEN 0 ELSE 1,
                     !.callToolCalls = 1,
                     !.ok = call = "ok",
                     !.detail = IF call = "ok" THEN "preview"
                                ELSE IF call = "isError" THEN "isError=true"
                                ELSE "exception"]

\* toolsModelCallTool (400-442) with a tools model and a tool name
toolsModelCallTool(name, safe, call, aborted) ==
  LET c == [NoToolCall EXCEPT !.name = name, !.safe = safe, !.aborted = aborted] IN
  IF aborted THEN [c EXCEPT !.thrown = TRUE, !.detail = "aborted"]
  ELSE IF safe = "falsy"
    THEN [c EXCEPT !.checkCalls = 1, !.detail = "blocked_by_policy"]
  ELSE IF safe = "throws"
    THEN [c EXCEPT !.checkCalls = 1, !.detail = "checkToolCallSafe failed"]
  ELSE [c EXCEPT !.checkCalls = IF safe = "absent" THEN 0 ELSE 1,
                 !.callToolCalls = 1,
                 !.ok = call = "ok",
                 !.detail = IF call = "ok" THEN "preview"
                            ELSE IF call = "isError" THEN "isError=true"
                            ELSE "exception"]

NoToolResult == [has |-> FALSE, ok |-> FALSE, detail |-> ""]

\* A mark that records the last call whatever was recorded before
mark_Overwrite(results, name, ok, detail) ==
  IF name = "" THEN results
  ELSE [results EXCEPT ![name] = [has |-> TRUE, ok |-> ok, detail |-> detail]]

\* mark (482-489)
mark(results, name, ok, detail) ==
  IF name = "" THEN results
  ELSE IF results[name].has /\ results[name].ok /\ ~ok THEN results
  ELSE [results EXCEPT ![name] = [has |-> TRUE, ok |-> ok, detail |-> detail]]

\* The names of byName (451-453): the non-empty names of the definitions
toolNamesOf(toolDefinitions) ==
  {toolDefinitions[i] : i \in 1..Len(toolDefinitions)} \ {""}

\* A coverage check that adds nothing
fillMissing_None(results, names) == results

\* lines 950-951: the tools without a result get "not executed"
fillMissing(results, names) ==
  [n \in DOMAIN results |->
     IF n \in names /\ ~results[n].has
     THEN [has |-> TRUE, ok |-> FALSE, detail |-> "not executed"]
     ELSE results[n]]

NoToolsExec ==
  [toolNames |-> {}, results |-> [n \in CapturedNames \ {""} |-> NoToolResult],
   marked |-> {}, calls |-> 0, last |-> NoToolCall, ran |-> FALSE, ok |-> FALSE,
   detail |-> "", toolResults |-> [n \in CapturedNames \ {""} |-> NoToolResult]]

InitToolsExec ==
  /\ tePc = "idle"
  /\ te = NoToolsExec

\* selfTestToolsModelExec up to the steps (444-505): without a tool name it
\* returns at once
toolsExecBegin ==
  /\ tePc = "idle"
  /\ \E toolDefinitions \in CapturedDefs :
       LET names == toolNamesOf(toolDefinitions) IN
       IF names = {}
         THEN /\ te' = [NoToolsExec EXCEPT !.detail = "no tools"]
              /\ tePc' = "returned"
         ELSE /\ te' = [NoToolsExec EXCEPT !.toolNames = names]
              /\ tePc' = "steps"

\* callIfPresent (491-497) as a step reaches it; a call under an aborted
\* signal throws and ends the steps
callIfPresent ==
  /\ tePc = "steps"
  /\ te.calls < MaxCalls
  /\ \E name \in StepTools, safe \in SafeOutcomes, call \in CallOutcomes,
        aborted \in BOOLEAN :
       IF name \notin te.toolNames
         THEN /\ safe = "absent" /\ call = "ok" /\ ~aborted
              /\ te' = [te EXCEPT !.calls = @ + 1,
                                  !.last = [NoToolCall EXCEPT !.name = name,
                                                              !.skipped = TRUE,
                                                              !.ok = TRUE]]
              /\ tePc' = "steps"
         ELSE LET r == toolsModelCallTool(name, safe, call, aborted) IN
              /\ safe \in {"falsy", "throws"} \/ aborted => call = "ok"
              /\ te' = [te EXCEPT
                   !.calls = @ + 1, !.last = r,
                   !.results = IF r.thrown THEN @ ELSE mark(@, name, r.ok, r.detail),
                   !.marked = IF r.thrown THEN @ ELSE @ \cup {name}]
              /\ tePc' = IF r.thrown THEN "propagated" ELSE "steps"

\* lines 949-968: the coverage check and the result
toolsExecReturn ==
  /\ tePc = "steps"
  /\ LET results == fillMissing(te.results, te.toolNames) IN
     te' = [te EXCEPT !.results = results, !.ran = TRUE,
                      !.ok = \A n \in DOMAIN results : ~(results[n].has /\ ~results[n].ok),
                      !.toolResults = results]
  /\ tePc' = "returned"

(***************************************************************************)
(* The three injections of official context into a chat request            *)
(* (shim.js 440-442, 1030-1057, 1106-1278)                                 *)
(***************************************************************************)

\* Bound: how many nodes each node array of the request holds at first.
MaxNodes == 1

\* Bound: how many extra text parts buildUserExtraTextParts yields.
MaxParts == 1

\* The ids of the injected nodes
RETRIEVAL_NODE_ID == -20

EXTERNAL_NODE_ID == -21

CANVAS_NODE_ID == -22

InjectedIds == {CANVAS_NODE_ID, EXTERNAL_NODE_ID, RETRIEVAL_NODE_ID}

\* makeTextRequestNode({ id, text })
makeTextRequestNode(id) == [id |-> id, type |-> "text"]

\* The nodes a request comes with: a text node and a tool result node
RequestNodes == {[id |-> 1, type |-> "text"], [id |-> 2, type |-> "tool_result"]}

\* A node array of the request, or what is no array
NodeArrays ==
  [isArray : {TRUE}, items : UNION {[1..k -> RequestNodes] : k \in 0..MaxNodes}]
    \cup {[isArray |-> FALSE, items |-> <<>>]}

ArrayNames == {"nodes", "structured_request_nodes", "request_nodes"}

InjectRequests == [ArrayNames -> NodeArrays]

\* countNonToolRequestNodes (1030-1035)
countNonToolRequestNodes(req) ==
  Cardinality({<<a, i>> \in ArrayNames \X (1..(MaxNodes + MaxParts + 3)) :
                 /\ i <= Len(req[a].items)
                 /\ req[a].items[i].type # "tool_result"})

\* pickInjectionTargetArray (1051-1057): the name of the array, "null" for
\* null
pickInjectionTargetArray(req) ==
  IF req["request_nodes"].isArray /\ Len(req["request_nodes"].items) > 0
    THEN "request_nodes"
  ELSE IF req["structured_request_nodes"].isArray
          /\ Len(req["structured_request_nodes"].items) > 0
    THEN "structured_request_nodes"
  ELSE IF req["nodes"].isArray THEN "nodes"
  ELSE "null"

\* maybeInjectUserExtraTextParts (1037-1049): the target after it
maybeInjectUserExtraTextParts(req, target, parts) ==
  IF countNonToolRequestNodes(req) > 0 THEN target
  ELSE target \o [i \in 1..parts |-> makeTextRequestNode(-30 - (i - 1))]

\* target.push(node)
pushNode(target, node) == Append(target, node)

\* lines 1206-1208 and 1269-1271: before the retrieval node when there is
\* one, else at the end
spliceBeforeRetrieval(target, node) ==
  LET hits == {i \in 1..Len(target) : target[i].id = RETRIEVAL_NODE_ID} IN
  IF hits = {} THEN Append(target, node)
  ELSE LET idx == CHOOSE i \in hits : \A j \in hits : i <= j IN
       SubSeq(target, 1, idx - 1) \o <<node>> \o SubSeq(target, idx, Len(target))

\* An injection that writes the extra text parts before it knows whether the
\* upstream gave anything
injection_WritesFirst(req, parts, gave, id) ==
  LET name == pickInjectionTargetArray(req) IN
  IF name = "null" THEN [ret |-> FALSE, req |-> req, target |-> "null"]
  ELSE LET withParts == maybeInjectUserExtraTextParts(req, req[name].items, parts) IN
       IF ~gave
         THEN [ret |-> FALSE, req |-> [req EXCEPT ![name].items = withParts],
               target |-> "null"]
       ELSE [ret |-> TRUE, target |-> name,
             req |-> [req EXCEPT ![name].items =
                        IF id = RETRIEVAL_NODE_ID
                        THEN pushNode(withParts, makeTextRequestNode(id))
                        ELSE spliceBeforeRetrieval(withParts, makeTextRequestNode(id))]]

\* The end of each injection (1147-1153, 1201-1210, 1264-1273): `gave` says
\* that the checks and the upstream calls before it yielded a text
injection(req, parts, gave, id) ==
  LET name == pickInjectionTargetArray(req) IN
  IF ~gave \/ name = "null" THEN [ret |-> FALSE, req |-> req, target |-> "null"]
  ELSE LET withParts == maybeInjectUserExtraTextParts(req, req[name].items, parts) IN
       [ret |-> TRUE, target |-> name,
        req |-> [req EXCEPT ![name].items =
                   IF id = RETRIEVAL_NODE_ID
                   THEN pushNode(withParts, makeTextRequestNode(id))
                   ELSE spliceBeforeRetrieval(withParts, makeTextRequestNode(id))]]

\* Why an injection gives up before the request is touched; "ok" when it
\* does not
RetrievalOutcomes == {"no information request", "no blobs", "fetch throws", "empty text", "ok"}

CanvasOutcomes == {"no canvas_id", "list throws", "no such canvas", "empty text", "ok"}

ExternalOutcomes == {"no message", "no source ids", "search throws", "no results", "empty text", "ok"}

NoInject ==
  [req |-> [a \in ArrayNames |-> [isArray |-> FALSE, items |-> <<>>]],
   first |-> [a \in ArrayNames |-> [isArray |-> FALSE, items |-> <<>>]],
   before |-> [a \in ArrayNames |-> [isArray |-> FALSE, items |-> <<>>]],
   parts |-> 0, disable_retrieval |-> FALSE, credentials |-> FALSE,
   step |-> "none", outcome |-> "none", ret |-> FALSE, raised |-> FALSE,
   succeeded |-> {}, targets |-> {}]

InitInject ==
  /\ inPc = "idle"
  /\ inj = NoInject

\* buildByokAugmentChatContext reaches its line 440 with a request
injectBegin ==
  /\ inPc = "idle"
  /\ \E req \in InjectRequests, parts \in 0..MaxParts,
        disable_retrieval \in BOOLEAN, credentials \in BOOLEAN :
       /\ disable_retrieval => credentials
       /\ inj' = [NoInject EXCEPT !.req = req, !.first = req, !.before = req,
                                  !.parts = parts,
                                  !.disable_retrieval = disable_retrieval,
                                  !.credentials = credentials]
  /\ inPc' = "retrieval"

\* The outcome an injection has under the request's switches: disabled
\* retrieval and missing credentials come before everything of its own
Gated(outcome) ==
  IF inj.disable_retrieval THEN "disabled"
  ELSE IF ~inj.credentials /\ outcome \in {"fetch throws", "list throws", "search throws",
                                           "no such canvas", "no results", "empty text", "ok"}
    THEN "no credentials"
  ELSE outcome

\* One injection as a step of the request
Inject(step, outcome, id, next) ==
  LET r == injection(inj.req, inj.parts, Gated(outcome) = "ok", id) IN
  /\ Gated(outcome) # outcome => outcome = "ok"
  /\ inj' = [inj EXCEPT !.req = r.req, !.before = inj.req, !.step = step,
                        !.outcome = Gated(outcome), !.ret = r.ret, !.raised = FALSE,
                        !.succeeded = IF r.ret THEN @ \cup {id} ELSE @,
                        !.targets = IF r.ret THEN @ \cup {r.target} ELSE @]
  /\ inPc' = next

\* maybeInjectOfficialCodebaseRetrieval (1106-1158)
maybeInjectOfficialCodebaseRetrieval ==
  /\ inPc = "retrieval"
  /\ \E outcome \in RetrievalOutcomes :
       Inject("retrieval", outcome, RETRIEVAL_NODE_ID, "canvas")

\* maybeInjectOfficialContextCanvas (1160-1215)
maybeInjectOfficialContextCanvas ==
  /\ inPc = "canvas"
  /\ \E outcome \in CanvasOutcomes :
       Inject("canvas", outcome, CANVAS_NODE_ID, "external")

\* maybeInjectOfficialExternalSources (1217-1278)
maybeInjectOfficialExternalSources ==
  /\ inPc = "external"
  /\ \E outcome \in ExternalOutcomes :
       Inject("external", outcome, EXTERNAL_NODE_ID, "done")

(***************************************************************************)
(* The cache of context canvases and the lookup of a canvas                *)
(* (shim.js 749-750, 1059-1104, 1175-1196)                                 *)
(***************************************************************************)

\* const CONTEXT_CANVAS_CACHE_TTL_MS = 5 * 60 * 1000
CONTEXT_CANVAS_CACHE_TTL_MS == 300000

\* The step of the clock between two operations, in ms
ClockStep == 150000

\* Bound: how many steps the clock makes.
MaxClockSteps == 3

\* Bound: how many lookups of a canvas are made.
MaxLookups == 2

CanvasIdsOfList == {"c1", "c2"}

NoCacheEntry == [present |-> FALSE, expiresAtMs |-> 0, byId |-> {}]

\* A getCanvasCacheEntry that hands out whatever the cache holds
getCanvasCacheEntry_NoExpiry(cache, nowMs) == [entry |-> cache, cache |-> cache]

\* getCanvasCacheEntry (1064-1074): the entry (NoCacheEntry for null) and
\* the cache after the call
getCanvasCacheEntry(cache, nowMs) ==
  IF ~cache.present THEN [entry |-> NoCacheEntry, cache |-> cache]
  ELSE IF cache.expiresAtMs <= nowMs
    THEN [entry |-> NoCacheEntry, cache |-> NoCacheEntry]
  ELSE [entry |-> cache, cache |-> cache]

\* ensureCanvasCacheEntry (1076-1084): the cache with an entry in it
ensureCanvasCacheEntry(cache, nowMs) ==
  LET got == getCanvasCacheEntry(cache, nowMs) IN
  IF got.entry.present THEN got.cache
  ELSE [present |-> TRUE, expiresAtMs |-> nowMs + CONTEXT_CANVAS_CACHE_TTL_MS,
        byId |-> {}]

\* upsertCanvasCache (1086-1096)
upsertCanvasCache(cache, canvases, nowMs) ==
  LET ensured == ensureCanvasCacheEntry(cache, nowMs) IN
  [ensured EXCEPT !.byId = @ \cup canvases,
                !.expiresAtMs = nowMs + CONTEXT_CANVAS_CACHE_TTL_MS]

\* getCanvasFromCache (1098-1104) at a time: the canvas ("" for null), the
\* expiry of the entry it came from, and the cache after the call
getCanvasFromCacheAt(cache, canvasId, nowMs) ==
  LET got == getCanvasCacheEntry(cache, nowMs) IN
  [canvas |-> IF got.entry.present /\ canvasId \in got.entry.byId THEN canvasId ELSE "",
   expiresAtMs |-> got.entry.expiresAtMs,
   cache |-> got.cache]

NoLookup ==
  [no |-> 0, canvasId |-> "", pages |-> 0, fetches |-> 0, canvas |-> "",
   from |-> "none", expiresAtMs |-> 0, at |-> 0, accessAt |-> 0]

InitCanvasCache ==
  /\ cvPc = "idle"
  /\ clock = 0
  /\ canvasCache = NoCacheEntry
  /\ cv = NoLookup

\* Time passes between two operations
clockStep ==
  /\ clock < MaxClockSteps * ClockStep
  /\ clock' = clock + ClockStep
  /\ UNCHANGED <<cvPc, canvasCache, cv>>

\* lines 1175-1176: the lookup of maybeInjectOfficialContextCanvas begins with
\* the cache
lookupBegin ==
  /\ cvPc \in {"idle", "done"}
  /\ cv.no < MaxLookups
  /\ \E canvasId \in CanvasIdsOfList :
       LET got == getCanvasFromCacheAt(canvasCache, canvasId, clock) IN
       /\ canvasCache' = got.cache
       /\ cv' = [NoLookup EXCEPT !.no = cv.no + 1, !.canvasId = canvasId,
                                 !.canvas = got.canvas,
                                 !.from = IF got.canvas # "" THEN "cache" ELSE "none",
                                 !.expiresAtMs = got.expiresAtMs,
                                 !.at = clock, !.accessAt = clock]
       /\ cvPc' = IF got.canvas # "" THEN "done" ELSE "pages"
  /\ UNCHANGED clock

\* lines 1182-1194: one round of the while loop; the deadline has passed, the
\* list request throws, or it answers with a page
lookupPage ==
  /\ cvPc = "pages"
  /\ \E inTime \in BOOLEAN, throws \in BOOLEAN,
        canvases \in SUBSET CanvasIdsOfList, nextPageToken \in BOOLEAN :
       IF ~(cv.pages < maxPages /\ inTime)
         THEN /\ ~throws /\ canvases = {} /\ ~nextPageToken
              /\ cv.pages < maxPages \/ inTime
              /\ cvPc' = "done"
              /\ UNCHANGED <<canvasCache, cv>>
       ELSE IF throws
         THEN /\ canvases = {} /\ ~nextPageToken
              /\ cv' = [cv EXCEPT !.fetches = @ + 1]
              /\ cvPc' = "done"
              /\ UNCHANGED canvasCache
       ELSE LET upserted == IF canvases # {}
                            THEN upsertCanvasCache(canvasCache, canvases, clock)
                            ELSE canvasCache
                inPage == cv.canvasId \in canvases
                got == getCanvasFromCacheAt(upserted, cv.canvasId, clock)
                touched == canvases # {} \/ ~inPage
            IN /\ canvasCache' = IF inPage THEN upserted ELSE got.cache
               /\ cv' = [cv EXCEPT
                    !.fetches = @ + 1,
                    !.canvas = IF inPage THEN cv.canvasId ELSE got.canvas,
                    !.from = IF inPage THEN "page"
                             ELSE IF got.canvas # "" THEN "cache" ELSE "none",
                    !.expiresAtMs = IF inPage THEN @ ELSE got.expiresAtMs,
                    !.at = clock,
                    !.accessAt = IF touched THEN clock ELSE @,
                    !.pages = IF inPage \/ got.canvas # "" \/ ~nextPageToken
                              THEN @ ELSE @ + 1]
               /\ cvPc' = IF inPage \/ got.canvas # "" \/ ~nextPageToken
                          THEN "done" ELSE "pages"
  /\ UNCHANGED clock

(***************************************************************************)
(* The configuration the webview sends (config-panel.webview.js 263-356,   *)
(* 378-384, 499-510, 588-592, 634-679)                                     *)
(***************************************************************************)

\* Bound: how many rule edits are made in the panel.
MaxEdits == 2

\* Bound: how many render messages the host sends.
MaxRenders == 1

PanelEndpoints == {"/e1", "/e2"}

\* The values of the mode select and of the provider and model fields
ModeValues == {"", "official", "byok", "disabled"}

ProviderIdValues == {"", "p1"}

ModelValues == {"", "m1"}

RuleKeys == {"mode", "providerId", "model"}

\* routing.rules[ep]: a rule, or no rule
NoRule == [present |-> FALSE, mode |-> "", providerId |-> "", model |-> ""]

PanelRules ==
  [present : {TRUE}, mode : ModeValues, providerId : ProviderIdValues, model : ModelValues]
    \cup {NoRule}

\* A configuration is routing.rules and telemetry.disabledEndpoints.
\* The configurations the host renders: with no legacy list, or with /e1 in
\* it, which has no rule or a byok rule
RenderedConfigs ==
  [rules : [PanelEndpoints -> PanelRules], disabledEndpoints : {{}}]
    \cup [rules : {r \in [PanelEndpoints -> PanelRules] :
                     r["/e1"] \in {NoRule, [present |-> TRUE, mode |-> "byok",
                                            providerId |-> "p1", model |-> "m1"]}},
          disabledEndpoints : {{"/e1"}}]

EmptyPanelConfig == [rules |-> [ep \in PanelEndpoints |-> NoRule], disabledEndpoints |-> {}]

\* migrateLegacyTelemetryDisabledEndpointsToRules (337-356)
migrateLegacyTelemetryDisabledEndpointsToRules(c) ==
  [rules |-> [ep \in PanelEndpoints |->
                IF ep \in c.disabledEndpoints
                THEN [present |-> TRUE, mode |-> "disabled", providerId |-> "", model |-> ""]
                ELSE c.rules[ep]],
   disabledEndpoints |-> {}]

\* The rule elements of the page for the endpoints it shows; `edit` is the
\* element the user has just changed
DomValue(c, edit, ep, key) ==
  IF edit.ep = ep /\ edit.key = key THEN edit.value
  ELSE IF key = "mode" THEN c.rules[ep].mode
  ELSE IF key = "providerId" THEN c.rules[ep].providerId
  ELSE c.rules[ep].model

NoEdit == [ep |-> "", key |-> "", value |-> ""]

\* applyRulesEditsFromDom (263-278)
applyRulesEditsFromDom(c, shown, edit) ==
  [c EXCEPT !.rules = [ep \in PanelEndpoints |->
     IF ep \in shown
     THEN [present |-> TRUE, mode |-> DomValue(c, edit, ep, "mode"),
           providerId |-> DomValue(c, edit, ep, "providerId"),
           model |-> DomValue(c, edit, ep, "model")]
     ELSE c.rules[ep]]]

\* A gatherConfigFromDom that sends the rules as the page has them
normalizeRules_AsIs(rules) == rules

\* gatherConfigFromDom 313-326: the loop over the rules
normalizeRules(rules) ==
  [ep \in DOMAIN rules |->
     IF ~rules[ep].present \/ rules[ep].mode = "" THEN NoRule
     ELSE IF rules[ep].mode # "byok"
       THEN [rules[ep] EXCEPT !.providerId = "", !.model = ""]
     ELSE rules[ep]]

\* gatherConfigFromDom (280-335), the routing rules and the telemetry list
gatherConfigFromDom(base, shown, edit) ==
  [rules |-> normalizeRules(applyRulesEditsFromDom(base, shown, edit).rules),
   disabledEndpoints |-> {}]

\* handleRuleChange (634-679) on the gathered configuration
changeRule(c, providers, ep, key, value) ==
  LET r == c.rules[ep]
      asRule == [r EXCEPT !.present = TRUE]
  IN
  IF key = "mode" THEN
    IF value = "" THEN [c EXCEPT !.rules[ep] = NoRule]
    ELSE [c EXCEPT !.rules[ep] =
            IF value # "byok"
            THEN [present |-> TRUE, mode |-> value, providerId |-> "", model |-> ""]
            ELSE [asRule EXCEPT !.mode = value]]
  ELSE IF key = "providerId" THEN
    [c EXCEPT !.rules[ep] =
       [asRule EXCEPT !.mode = "byok",
                      !.model = IF r.providerId = "" THEN ""
                                ELSE IF r.model # "" /\ providers[r.providerId] # {}
                                        /\ r.model \notin providers[r.providerId]
                                  THEN ""
                                ELSE @]]
  ELSE [c EXCEPT !.rules[ep] = [asRule EXCEPT !.mode = "byok"]]

NoWebview ==
  [cfg |-> EmptyPanelConfig, renders |-> 0, edits |-> 0, legacy |-> {}, touched |-> {},
   sentType |-> "none", sent |-> EmptyPanelConfig, sentLegacy |-> {}]

InitWebview == wv = NoWebview

\* handleMessage, type "render" (378-384)
renderMessage ==
  /\ wv.renders < MaxRenders
  /\ \E config \in RenderedConfigs :
       wv' = [NoWebview EXCEPT
                !.cfg = migrateLegacyTelemetryDisabledEndpointsToRules(config),
                !.renders = wv.renders + 1, !.edits = wv.edits,
                !.legacy = config.disabledEndpoints]

\* handleRuleChange (634-679) for the element the user changed; the page
\* shows the rules of some of the endpoints, the changed one among them
handleRuleChange ==
  /\ wv.edits < MaxEdits
  /\ \E shown \in SUBSET PanelEndpoints, ep \in PanelEndpoints, key \in RuleKeys,
        value \in ModeValues \cup ProviderIdValues \cup ModelValues,
        models \in SUBSET (ModelValues \ {""}) :
       /\ ep \in shown
       /\ value \in (IF key = "mode" THEN ModeValues
                     ELSE IF key = "providerId" THEN ProviderIdValues
                     ELSE ModelValues)
       /\ LET edit == [ep |-> ep, key |-> key, value |-> value]
              gathered == gatherConfigFromDom(wv.cfg, shown, edit)
              providers == [p \in ProviderIdValues \ {""} |-> models]
          IN /\ key # "providerId" => models = {}
             /\ wv' = [NoWebview EXCEPT
                  !.cfg = changeRule(gathered, providers, ep, key, value),
                  !.renders = wv.renders, !.edits = wv.edits + 1,
                  !.legacy = wv.legacy, !.touched = wv.touched \cup {ep}]

\* handleAction for save, runSelfTest and testOfficialGetModels (499-510,
\* 588-592): the configuration is gathered and posted, and setUiState
\* gathers it once more
postConfig ==
  /\ \E type \in {"save", "runSelfTest", "testOfficialGetModels"},
        shown \in SUBSET PanelEndpoints :
       LET gathered == gatherConfigFromDom(wv.cfg, shown, NoEdit) IN
       wv' = [wv EXCEPT !.sentType = type, !.sent = gathered,
                        !.sentLegacy = wv.legacy \ wv.touched,
                        !.cfg = gatherConfigFromDom(gathered, shown, NoEdit)]

(***************************************************************************)
(* The whole program and its parts                                         *)
(***************************************************************************)

vars ==
  <<shimVars, stVars, rtVars, tdVars, ssVars, sjVars, mdVars, pmVars, scVars, ccVars, csVars,
    dlVars, gpVars, evVars, ftVars, gmVars, teVars, inVars, cvVars, wvVars>>

\* the variables a part leaves alone
exceptShim == <<stVars, rtVars, tdVars, ssVars, sjVars, mdVars, pmVars, scVars, ccVars, csVars, dlVars, gpVars, evVars, ftVars, gmVars, teVars, inVars, cvVars, wvVars>>

exceptSelfTest == <<shimVars, rtVars, tdVars, ssVars, sjVars, mdVars, pmVars, scVars, ccVars, csVars, dlVars, gpVars, evVars, ftVars, gmVars, teVars, inVars, cvVars, wvVars>>

exceptRoundtrip == <<shimVars, stVars, tdVars, ssVars, sjVars, mdVars, pmVars, scVars, ccVars, csVars, dlVars, gpVars, evVars, ftVars, gmVars, teVars, inVars, cvVars, wvVars>>

exceptToolDefs == <<shimVars, stVars, rtVars, ssVars, sjVars, mdVars, pmVars, scVars, ccVars, csVars, dlVars, gpVars, evVars, ftVars, gmVars, teVars, inVars, cvVars, wvVars>>

exceptStrictSchema == <<shimVars, stVars, rtVars, tdVars, sjVars, mdVars, pmVars, scVars, ccVars, csVars, dlVars, gpVars, evVars, ftVars, gmVars, teVars, inVars, cvVars, wvVars>>

exceptSample == <<shimVars, stVars, rtVars, tdVars, ssVars, mdVars, pmVars, scVars, ccVars, csVars, dlVars, gpVars, evVars, ftVars, gmVars, teVars, inVars, cvVars, wvVars>>

exceptChatStream ==
  <<shimVars, stVars, rtVars, tdVars, ssVars, sjVars, mdVars, pmVars, scVars, ccVars, dlVars, gpVars, evVars, ftVars, gmVars, teVars, inVars, cvVars, wvVars>>

exceptCollect == <<shimVars, stVars, rtVars, tdVars, ssVars, sjVars, mdVars, pmVars, scVars, csVars, dlVars, gpVars, evVars, ftVars, gmVars, teVars, inVars, cvVars, wvVars>>

exceptScratch == <<shimVars, stVars, rtVars, tdVars, ssVars, sjVars, mdVars, pmVars, ccVars, csVars, dlVars, gpVars, evVars, ftVars, gmVars, teVars, inVars, cvVars, wvVars>>

exceptPickModel == <<shimVars, stVars, rtVars, tdVars, ssVars, sjVars, mdVars, scVars, ccVars, csVars, dlVars, gpVars, evVars, ftVars, gmVars, teVars, inVars, cvVars, wvVars>>

exceptModels == <<shimVars, stVars, rtVars, tdVars, ssVars, sjVars, pmVars, scVars, ccVars, csVars, dlVars, gpVars, evVars, ftVars, gmVars, teVars, inVars, cvVars, wvVars>>

exceptDeadlines ==
  <<shimVars, stVars, rtVars, tdVars, ssVars, sjVars, mdVars, pmVars, scVars, ccVars, csVars, gpVars, evVars, ftVars, gmVars, teVars, inVars, cvVars, wvVars>>

exceptGlobalPhase ==
  <<shimVars, stVars, rtVars, tdVars, ssVars, sjVars, mdVars, pmVars, scVars, ccVars, csVars, dlVars, evVars, ftVars, gmVars, teVars, inVars, cvVars, wvVars>>

exceptEvents ==
  <<shimVars, stVars, rtVars, tdVars, ssVars, sjVars, mdVars, pmVars, scVars, ccVars, csVars, dlVars, gpVars, ftVars, gmVars, teVars, inVars, cvVars, wvVars>>

exceptFindTools ==
  <<shimVars, stVars, rtVars, tdVars, ssVars, sjVars, mdVars, pmVars, scVars, ccVars, csVars, dlVars, gpVars, evVars, gmVars, teVars, inVars, cvVars, wvVars>>

exceptGetModels ==
  <<shimVars, stVars, rtVars, tdVars, ssVars, sjVars, mdVars, pmVars, scVars, ccVars, csVars, dlVars, gpVars, evVars, ftVars, teVars, inVars, cvVars, wvVars>>

exceptToolsExec ==
  <<shimVars, stVars, rtVars, tdVars, ssVars, sjVars, mdVars, pmVars, scVars, ccVars, csVars, dlVars, gpVars, evVars, ftVars, gmVars, inVars, cvVars, wvVars>>

exceptInject ==
  <<shimVars, stVars, rtVars, tdVars, ssVars, sjVars, mdVars, pmVars, scVars, ccVars, csVars, dlVars, gpVars, evVars, ftVars, gmVars, teVars, cvVars, wvVars>>

exceptCanvasCache ==
  <<shimVars, stVars, rtVars, tdVars, ssVars, sjVars, mdVars, pmVars, scVars, ccVars, csVars, dlVars, gpVars, evVars, ftVars, gmVars, teVars, inVars, wvVars>>

exceptWebview ==
  <<shimVars, stVars, rtVars, tdVars, ssVars, sjVars, mdVars, pmVars, scVars, ccVars, csVars, dlVars, gpVars, evVars, ftVars, gmVars, teVars, inVars, cvVars>>

Init ==
  /\ InitShim /\ InitSelfTest /\ InitRoundtrip /\ InitToolDefs /\ InitStrictSchema
  /\ InitSample /\ InitModels /\ InitPickModel /\ InitScratch /\ InitCollect
  /\ InitChatStream
  /\ InitDeadlines
  /\ InitGlobalPhase
  /\ InitEvents
  /\ InitFindTools
  /\ InitGetModels
  /\ InitToolsExec
  /\ InitInject
  /\ InitCanvasCache
  /\ InitWebview

\* The runtime shim alone: nobody opens the self-test.
NextShimAlone ==
  \/ enableRuntime /\ UNCHANGED exceptShim
  \/ disableRuntime /\ UNCHANGED exceptShim
  \/ save /\ UNCHANGED exceptShim
  \/ maybeHandleCallApi /\ UNCHANGED exceptShim
  \/ maybeHandleCallApiStream /\ UNCHANGED exceptShim

SpecShim == Init /\ [][NextShimAlone]_vars

\* The config panel's self-test alone: no request passes through the shim.
NextSelfTestAlone ==
  \/ cancelSelfTest /\ UNCHANGED exceptSelfTest
  \/ runSelfTestAlreadyRunning /\ UNCHANGED exceptSelfTest
  \/ runSelfTestStart /\ UNCHANGED exceptSelfTest
  \/ fetchToolsDone /\ UNCHANGED exceptSelfTest
  \/ strictCapturedDone /\ UNCHANGED exceptSelfTest
  \/ toolsExecDone /\ UNCHANGED exceptSelfTest
  \/ nextProvider /\ UNCHANGED exceptSelfTest
  \/ modelsDone /\ UNCHANGED exceptSelfTest
  \/ completeTextDone /\ UNCHANGED exceptSelfTest
  \/ streamTextDone /\ UNCHANGED exceptSelfTest
  \/ nextEditDone /\ UNCHANGED exceptSelfTest
  \/ nextEditLocDone /\ UNCHANGED exceptSelfTest
  \/ chatStreamDone /\ UNCHANGED exceptSelfTest
  \/ realToolsSchemaDone /\ UNCHANGED exceptSelfTest
  \/ realToolsToolRoundtripDone /\ UNCHANGED exceptSelfTest
  \/ toolsMultimodalDone /\ UNCHANGED exceptSelfTest
  \/ toolRoundtripDone /\ UNCHANGED exceptSelfTest
  \/ historySummaryRun1Done /\ UNCHANGED exceptSelfTest
  \/ historySummaryRun2Done /\ UNCHANGED exceptSelfTest
  \/ historySummaryDeleteDone /\ UNCHANGED exceptSelfTest

SpecSelfTest == Init /\ [][NextSelfTestAlone]_vars

\* The real-tool round-trip probe alone.
NextRoundtripAlone ==
  \/ realToolsToolRoundtripByProvider /\ UNCHANGED exceptRoundtrip
  \/ abortSignalled /\ UNCHANGED exceptRoundtrip
  \/ turn1Throws /\ UNCHANGED exceptRoundtrip
  \/ turn1Answers /\ UNCHANGED exceptRoundtrip
  \/ turn2Done /\ UNCHANGED exceptRoundtrip

SpecRoundtrip == Init /\ [][NextRoundtripAlone]_vars

\* The consumers of a tool-definition list alone.
NextToolDefsAlone ==
  \/ captureAugmentToolDefinitions /\ UNCHANGED exceptToolDefs
  \/ fetchLocalToolDefinitionsFromUpstream /\ UNCHANGED exceptToolDefs
  \/ capturedToolsSummary /\ UNCHANGED exceptToolDefs
  \/ realToolsProbes /\ UNCHANGED exceptToolDefs
  \/ selfTestToolsModelExec /\ UNCHANGED exceptToolDefs

SpecToolDefs == Init /\ [][NextToolDefsAlone]_vars

\* The strict-schema validator alone.
NextStrictSchemaAlone ==
  \/ validateSchema /\ UNCHANGED exceptStrictSchema
  \/ strictCaptured /\ UNCHANGED exceptStrictSchema
  \/ realToolsSchema /\ UNCHANGED exceptStrictSchema

SpecStrictSchema == Init /\ [][NextStrictSchemaAlone]_vars

\* sampleJsonFromSchema alone.
NextSampleAlone ==
  \/ sampleSchema /\ UNCHANGED exceptSample

SpecSample == Init /\ [][NextSampleAlone]_vars

\* Model discovery alone.
NextModelsAlone ==
  \/ fetchProviderModels /\ UNCHANGED exceptModels
  \/ fetchModelsResponse /\ UNCHANGED exceptModels

SpecModels == Init /\ [][NextModelsAlone]_vars

\* The model resolution of selfTestProvider alone.
NextPickModelAlone ==
  \/ selfTestProviderStart /\ UNCHANGED exceptPickModel
  \/ selfTestProviderModels /\ UNCHANGED exceptPickModel
  \/ selfTestProviderCall /\ UNCHANGED exceptPickModel

SpecPickModel == Init /\ [][NextPickModelAlone]_vars

\* The scratch directory of selfTestToolsModelExec alone.
NextScratchAlone ==
  \/ toolsExecStart /\ UNCHANGED exceptScratch
  \/ ensureDir /\ UNCHANGED exceptScratch
  \/ toolsExecStep /\ UNCHANGED exceptScratch
  \/ rmPathRecursive /\ UNCHANGED exceptScratch

SpecScratch == Init /\ [][NextScratchAlone]_vars

\* collectChatStream alone.
NextCollectAlone ==
  \/ collectChatStream /\ UNCHANGED exceptCollect
  \/ forAwaitChunk /\ UNCHANGED exceptCollect
  \/ streamFinished /\ UNCHANGED exceptCollect

SpecCollect == Init /\ [][NextCollectAlone]_vars

\* The request path of a chat stream alone.
NextChatStreamAlone ==
  \/ byokChatStream /\ UNCHANGED exceptChatStream
  \/ nextEditLoc /\ UNCHANGED exceptChatStream
  \/ summarizeSettled /\ UNCHANGED exceptChatStream
  \/ retrievalPostOnce /\ UNCHANGED exceptChatStream
  \/ canvasListSettled /\ UNCHANGED exceptChatStream
  \/ externalSourcesSettled /\ UNCHANGED exceptChatStream
  \/ backendStream /\ UNCHANGED exceptChatStream

SpecChatStream == Init /\ [][NextChatStreamAlone]_vars

\* The deadlines of sub-calls alone.
NextDeadlinesAlone ==
  \/ getModelsDeadline /\ UNCHANGED exceptDeadlines
  \/ codebaseRetrievalDeadline /\ UNCHANGED exceptDeadlines
  \/ contextCanvasDeadline /\ UNCHANGED exceptDeadlines
  \/ externalSourcesDeadline /\ UNCHANGED exceptDeadlines
  \/ selfTestDeadlines /\ UNCHANGED exceptDeadlines

SpecDeadlines == Init /\ [][NextDeadlinesAlone]_vars

\* The global phase of runSelfTest alone.
NextGlobalPhaseAlone ==
  \/ chatCaptures /\ UNCHANGED exceptGlobalPhase
  \/ runSelfTestGlobal /\ UNCHANGED exceptGlobalPhase
  \/ fetchFromUpstreamSettled /\ UNCHANGED exceptGlobalPhase

SpecGlobalPhase == Init /\ [][NextGlobalPhaseAlone]_vars

\* The events of runSelfTest alone.
NextEventsAlone ==
  \/ runSelfTestLogsStart /\ UNCHANGED exceptEvents
  \/ stepLogs /\ UNCHANGED exceptEvents
  \/ runSelfTestEmitsDone /\ UNCHANGED exceptEvents

SpecEvents == Init /\ [][NextEventsAlone]_vars

\* findToolsModelDeep alone.
NextFindToolsAlone ==
  \/ callFindToolsModelDeep /\ UNCHANGED exceptFindTools

SpecFindTools == Init /\ [][NextFindToolsAlone]_vars

\* The /get-models branch and mergeModels alone.
NextGetModelsAlone ==
  \/ callApiGetModels /\ UNCHANGED exceptGetModels
  \/ callMergeModels /\ UNCHANGED exceptGetModels

SpecGetModels == Init /\ [][NextGetModelsAlone]_vars

\* The tool calls of selfTestToolsModelExec alone.
NextToolsExecAlone ==
  \/ toolsExecBegin /\ UNCHANGED exceptToolsExec
  \/ callIfPresent /\ UNCHANGED exceptToolsExec
  \/ toolsExecReturn /\ UNCHANGED exceptToolsExec

SpecToolsExec == Init /\ [][NextToolsExecAlone]_vars

\* The three injections alone.
NextInjectAlone ==
  \/ injectBegin /\ UNCHANGED exceptInject
  \/ maybeInjectOfficialCodebaseRetrieval /\ UNCHANGED exceptInject
  \/ maybeInjectOfficialContextCanvas /\ UNCHANGED exceptInject
  \/ maybeInjectOfficialExternalSources /\ UNCHANGED exceptInject

SpecInject == Init /\ [][NextInjectAlone]_vars

\* The canvas cache alone.
NextCanvasCacheAlone ==
  \/ clockStep /\ UNCHANGED exceptCanvasCache
  \/ lookupBegin /\ UNCHANGED exceptCanvasCache
  \/ lookupPage /\ UNCHANGED exceptCanvasCache

SpecCanvasCache == Init /\ [][NextCanvasCacheAlone]_vars

\* The webview's configuration alone.
NextWebviewAlone ==
  \/ renderMessage /\ UNCHANGED exceptWebview
  \/ handleRuleChange /\ UNCHANGED exceptWebview
  \/ postConfig /\ UNCHANGED exceptWebview

SpecWebview == Init /\ [][NextWebviewAlone]_vars

Next ==
  \/ NextWebviewAlone
  \/ NextCanvasCacheAlone
  \/ NextInjectAlone
  \/ NextToolsExecAlone
  \/ NextGetModelsAlone
  \/ NextFindToolsAlone
  \/ NextEventsAlone
  \/ NextGlobalPhaseAlone
  \/ NextDeadlinesAlone
  \/ NextChatStreamAlone
  \/ NextCollectAlone
  \/ NextScratchAlone
  \/ NextPickModelAlone
  \/ NextModelsAlone
  \/ NextSampleAlone
  \/ NextStrictSchemaAlone
  \/ NextShimAlone
  \/ NextSelfTestAlone
  \/ NextRoundtripAlone
  \/ NextToolDefsAlone

Spec == Init /\ [][Next]_vars

(***************************************************************************)
(* Claims about the runtime shim.  shimCall describes the handler          *)
(* invocation that has just returned; runtimeEnabled and cfg are the ones   *)
(* it ran under (any change of them clears shimCall).                      *)
(***************************************************************************)

ShimReturned == shimCall.handler # "none"

ShimNoBackend == shimCall.adapterCalls = 0 /\ shimCall.officialCalls = 0

\* C1 (as stated): with the runtime disabled both handlers return undefined for
\* every endpoint and body, whatever the rules, and nothing else happens: no
\* routing decision, no backend call and no cache mutation.
C1_DisabledRuntimeTouchesNothing ==
  (ShimReturned /\ ~runtimeEnabled) =>
    /\ shimCall.result = "undefined"
    /\ ~shimCall.routed
    /\ ShimNoBackend
    /\ hsCache = shimCall.cacheBefore

\* C1 (amended): with the runtime disabled both handlers return undefined for
\* every endpoint and body, whatever the rules, with no routing decision and no
\* backend call; the only cache mutation is the removal of the request's own
\* conversation from the history-summary cache, and only for an endpoint whose
\* name contains delete, remove or archive.
C1_DisabledRuntimePassThrough ==
  (ShimReturned /\ ~runtimeEnabled) =>
    /\ shimCall.result = "undefined"
    /\ ~shimCall.routed
    /\ ShimNoBackend
    /\ hsCache \subseteq shimCall.cacheBefore
    /\ (shimCall.cacheBefore \ hsCache) \subseteq {shimCall.conv}
    /\ (hsCache # shimCall.cacheBefore => EndpointNamesDeletion(shimCall.ep))

\* C1 witness: a request to an endpoint with a byok rule, made while the
\* runtime is disabled, has returned.
C1_Witness ==
  /\ ShimReturned
  /\ ~runtimeEnabled
  /\ shimCall.ep # ""
  /\ cfg.rules[shimCall.ep] = "byok"

ShimRouteDisabled ==
  /\ ShimReturned
  /\ runtimeEnabled
  /\ shimCall.ep # ""
  /\ decideRoute(cfg, shimCall.ep, runtimeEnabled).mode = "disabled"

Names(tests) == [i \in 1..Len(tests) |-> tests[i].name]

AllOk(tests) == \A i \in 1..Len(tests) : tests[i].ok

Failed(tests, name) == \E i \in 1..Len(tests) : tests[i].name = name /\ ~tests[i].ok

\* The probes of a provider in the order of the source; "config" is recorded
\* only when the configuration is incomplete.
ClaimedOrder ==
  <<"config", "models", "completeText", "streamText", "nextEdit", "nextEditLoc", "chatStream",
    "realToolsSchema", "realToolsToolRoundtrip", "tools+multimodal", "toolRoundtrip">>

ProbeOrder == SubSeq(ClaimedOrder, 2, Len(ClaimedOrder))

Rank(name) == CHOOSE i \in 1..Len(ClaimedOrder) : ClaimedOrder[i] = name

IsProbeName(name) == \E i \in 1..Len(ClaimedOrder) : ClaimedOrder[i] = name

TestIsProbe(t) == IsProbeName(t.name)

ProbeNames(tests) == Names(SelectSeq(tests, TestIsProbe))

\* The run is inside selfTestProvider.
InProvider == stPc \in {ClaimedOrder[i] : i \in 2..Len(ClaimedOrder)}

\* The handler of the last run has settled.
RunSettled == ~selfTestRunning /\ panel.posts # <<>>

\* C3: the report's ok flag is true iff every global test and every test of
\* every provider entry is ok, and a finished report has one entry per
\* configured provider.
C3_ReportOkIffAllTestsOk ==
  report.finished =>
    /\ report.ok = (/\ AllOk(report.global)
                    /\ \A i \in 1..Len(report.providers) : AllOk(report.providers[i].tests))
    /\ Len(report.providers) = Len(stRun.providers)

\* A finished report with two provider entries, the first of them with a failed
\* test, and ok false.
C3_Witness ==
  /\ report.finished
  /\ ~report.ok
  /\ Len(report.providers) = 2
  /\ ~AllOk(report.providers[1].tests)
  /\ AllOk(report.providers[2].tests)
  /\ AllOk(report.global)

\* C4 as stated: every failed probe is followed by the next probe, and only an
\* incomplete provider configuration ends a provider's probes early.
C4_OnlyConfigSkipsProbes ==
  \A i \in 1..Len(report.providers) :
    LET e == report.providers[i]
    IN \/ e.tests = <<Test("config", FALSE)>> /\ ~stRun.providers[i].configOk
       \/ ProbeNames(e.tests) = ProbeOrder

\* C4 (amended): a provider's probes are all recorded, in order, whatever
\* fails, except that the probes end early after an incomplete configuration,
\* after model discovery when no model is found, and after a synthetic-tool +
\* multimodal probe that throws.
C4_FailureIsolatedExceptThreeExits ==
  \A i \in 1..Len(report.providers) :
    LET e == report.providers[i]
        last == e.tests[Len(e.tests)]
    IN \/ e.tests = <<Test("config", FALSE)>> /\ ~stRun.providers[i].configOk
       \/ /\ ProbeNames(e.tests) = <<"models">>
          /\ last = Test("model", FALSE)
          /\ ~stRun.providers[i].localModel
       \/ /\ ProbeNames(e.tests) = SubSeq(ProbeOrder, 1, Len(ProbeOrder) - 1)
          /\ last = Test("tools+multimodal", FALSE)
       \/ ProbeNames(e.tests) = ProbeOrder

\* A provider whose streamText probe failed and whose later probes, up to the
\* tool-result round trip, were all recorded.
C4_Witness ==
  \E i \in 1..Len(report.providers) :
    /\ Failed(report.providers[i].tests, "streamText")
    /\ ProbeNames(report.providers[i].tests) = ProbeOrder

\* C5 as stated: a run that was canceled ends as canceled, with
\* selfTestCanceled posted to the panel and no report of a completed run.
C5_CancelSurfacesAsCanceled ==
  (RunSettled /\ stRun.aborted) =>
    /\ \E i \in 1..Len(panel.posts) : panel.posts[i] = "selfTestCanceled"
    /\ \A i \in 1..Len(panel.posts) : panel.posts[i] # "selfTestDone"
    /\ ~report.finished

\* C6: in every entry, finished or in progress, the probes appear in the
\* claimed order and none appears twice.
C6_ProbeOrderFixed ==
  \A e \in {report.providers[i] : i \in 1..Len(report.providers)} \cup {entry} :
    LET names == ProbeNames(e.tests)
    IN \A i, j \in 1..Len(names) : i < j => Rank(names[i]) < Rank(names[j])

\* An entry with every probe from model discovery to the tool-result round trip.
C6_Witness ==
  \E i \in 1..Len(report.providers) : ProbeNames(report.providers[i].tests) = ProbeOrder

\* C7: the entries of the report are those of the first providers of the
\* configuration, in order; the provider being probed is the one after them;
\* a provider with an incomplete configuration has a failed entry; a finished
\* report has an entry for every provider.
C7_ProvidersSequentialInOrder ==
  /\ Len(report.providers) <= Len(stRun.providers)
  /\ \A i \in 1..Len(report.providers) :
       /\ report.providers[i].providerId = i
       /\ ~stRun.providers[i].configOk =>
            /\ report.providers[i].tests = <<Test("config", FALSE)>>
            /\ ~report.providers[i].ok
  /\ InProvider =>
       /\ entry.providerId = Len(report.providers) + 1
       /\ stRun.idx = entry.providerId
  /\ report.finished => Len(report.providers) = Len(stRun.providers)

\* A finished run whose first provider has an incomplete configuration and
\* whose second provider was probed.
C7_Witness ==
  /\ report.finished
  /\ Len(stRun.providers) = 2
  /\ ~stRun.providers[1].configOk
  /\ Len(report.providers) = 2
  /\ Len(report.providers[2].tests) > 1

(***************************************************************************)
(* Claims about the real-tool round-trip probe.                            *)
(***************************************************************************)

SeqSet(sq) == {sq[i] : i \in 1..Len(sq)}

\* The first-turn response is one the data model allows: every tool-use node
\* has a name and an id, and no id occurs twice.
WellFormedResponse(nodes) ==
  /\ \A i \in 1..Len(nodes) : UseHasIdAndName(nodes[i])
  /\ \A i, j \in 1..Len(nodes) : i # j => nodes[i].tool_use_id # nodes[j].tool_use_id

\* The first node of the response that uses the tool and has an id.
FirstUse(nodes, name) ==
  nodes[CHOOSE i \in 1..Len(nodes) :
          /\ nodes[i].tool_name = name /\ nodes[i].tool_use_id # ""
          /\ \A k \in 1..(i - 1) : ~(nodes[k].tool_name = name /\ nodes[k].tool_use_id # "")]

\* C8 as stated: every tool-use node of a well-formed first-turn response is
\* answered by exactly one tool-result node with its id, and every tool-result
\* node carries an id of the response.
C8_EveryToolUseAnswered ==
  (rtTurn.turn1 = "answers" /\ WellFormedResponse(rtTurn.nodes)) =>
    /\ \A i \in 1..Len(rtTurn.nodes) :
         Cardinality({j \in 1..Len(rtTurn.request_nodes) :
                        rtTurn.request_nodes[j].tool_use_id = rtTurn.nodes[i].tool_use_id}) = 1
    /\ \A j \in 1..Len(rtTurn.request_nodes) :
         \E i \in 1..Len(rtTurn.nodes) :
           rtTurn.nodes[i].tool_use_id = rtTurn.request_nodes[j].tool_use_id

\* C8 (amended): for every tool of the batch that the response uses, the first
\* use that has an id is answered by exactly one tool-result node with that id
\* and no other node answers for the tool; no tool-result node is sent for a
\* tool outside the batch or with an id the response did not return; the second
\* turn is sent iff there is a node to send; ids that are unique in the
\* response are unique in the request.
C8_FirstUsePerBatchToolAnswered ==
  rtTurn.turn1 = "answers" =>
    LET batch == namesBatch(rtIn.n, rtTurn.bi)
        nodes == rtTurn.nodes
        rn    == rtTurn.request_nodes
    IN /\ \A nm \in SeqSet(batch) :
            IF \E i \in 1..Len(nodes) : nodes[i].tool_name = nm /\ nodes[i].tool_use_id # ""
              THEN \E j \in 1..Len(rn) :
                     /\ rn[j].tool = nm
                     /\ rn[j].tool_use_id = FirstUse(nodes, nm).tool_use_id
                     /\ \A k \in 1..Len(rn) : k # j => rn[k].tool # nm
              ELSE \A j \in 1..Len(rn) : rn[j].tool # nm
       /\ \A j \in 1..Len(rn) :
            /\ rn[j].tool \in SeqSet(batch)
            /\ \E i \in 1..Len(nodes) : nodes[i].tool_use_id = rn[j].tool_use_id
       /\ rtTurn.sent = (rn # <<>>)
       /\ WellFormedResponse(nodes) =>
            \A j, k \in 1..Len(rn) : j # k => rn[j].tool_use_id # rn[k].tool_use_id

\* A well-formed response that uses one tool of the batch twice: the second
\* turn is sent with a single tool-result node, that of the first use.
C8_Witness ==
  /\ rtTurn.sent
  /\ WellFormedResponse(rtTurn.nodes)
  /\ Len(rtTurn.nodes) = 2
  /\ rtTurn.nodes[1].tool_name = rtTurn.nodes[2].tool_name
  /\ Len(rtTurn.request_nodes) = 1
  /\ rtTurn.request_nodes[1].tool_use_id = rtTurn.nodes[1].tool_use_id

\* The tools of the batches before batch bi.
NamesBefore(n, bi) == SeqSet(SubSeq(toolNames(n), 1, Min(batchSize * (bi - 1), n)))

\* C9: an error leaves the probe only when the signal is aborted; otherwise
\* every tool of every batch ends up either called or among the call failures,
\* every called tool is round-tripped (with or without success), and the tools
\* of a batch whose first chat call throws are all among the call failures.
C9_FailuresNeverAbortBatches ==
  /\ rtResult.thrown => rtIn.aborted
  /\ SeqSet(rtAcc.callFailed) \cap SeqSet(rtAcc.called) = {}
  /\ rtPc = "turn1" =>
       SeqSet(rtAcc.callFailed) \cup SeqSet(rtAcc.called) = NamesBefore(rtIn.n, rtBi)
  /\ rtPc = "turn2" =>
       SeqSet(rtAcc.callFailed) \cup SeqSet(rtAcc.called) = NamesBefore(rtIn.n, rtBi + 1)
  /\ rtResult.returned =>
       /\ SeqSet(rtAcc.callFailed) \cup SeqSet(rtAcc.called) = SeqSet(toolNames(rtIn.n))
       /\ SeqSet(rtAcc.roundtripOk) \cup SeqSet(rtAcc.roundtripFailed) = SeqSet(rtAcc.called)
       /\ rtTurn.turn1 = "throws" =>
            SeqSet(namesBatch(rtIn.n, rtTurn.bi)) \subseteq SeqSet(rtAcc.callFailed)

\* The probe returned for seven tools: in the first batch "b" got no tool use
\* while "a" was called and round-tripped, and the second batch ran as well.
C9_Witness ==
  /\ rtResult.returned
  /\ rtIn.n = 7
  /\ "b" \in SeqSet(rtAcc.callFailed)
  /\ "a" \in SeqSet(rtAcc.roundtripOk)
  /\ "g" \in SeqSet(rtAcc.called)

\* C10 as stated: a probe whose only findings are metadata mismatches does not
\* fail.
C10_MetaMismatchAloneNotFailure ==
  (/\ rtResult.returned
   /\ rtAcc.metaMismatches # <<>>
   /\ rtAcc.callFailed = <<>>
   /\ rtAcc.roundtripFailed = <<>>) => (rtResult.ok /\ rtResult.test.ok)

\* C10 (amended): a tool with a metadata mismatch counts as called, not as a
\* call failure, and is round-tripped like any called tool; but a probe with a
\* metadata mismatch returns ok = false and is recorded as a failed test.
C10_MetaMismatchCalledButProbeFails ==
  /\ SeqSet(rtAcc.metaMismatches) \subseteq SeqSet(rtAcc.called)
  /\ SeqSet(rtAcc.metaMismatches) \cap SeqSet(rtAcc.callFailed) = {}
  /\ rtResult.returned =>
       /\ SeqSet(rtAcc.metaMismatches) \subseteq
            SeqSet(rtAcc.roundtripOk) \cup SeqSet(rtAcc.roundtripFailed)
       /\ rtAcc.metaMismatches # <<>> => ~rtResult.ok /\ ~rtResult.test.ok

\* The probe returned with every tool called and round-tripped and with a
\* metadata mismatch as its only finding.
C10_Witness ==
  /\ rtResult.returned
  /\ rtIn.n > 0
  /\ rtAcc.metaMismatches # <<>>
  /\ rtAcc.callFailed = <<>>
  /\ rtAcc.roundtripFailed = <<>>
  /\ Len(rtAcc.roundtripOk) = rtIn.n

(***************************************************************************)
(* Claims about the batches of the round-trip probe.                       *)
(***************************************************************************)

RECURSIVE Flatten(_)
Flatten(sqs) == IF sqs = <<>> THEN <<>> ELSE sqs[1] \o Flatten(Tail(sqs))

\* C11: the batches partition the selected tool names into consecutive
\* batches of at least one and at most batchSize (6) names: their concatenation
\* in batch order is the selected list, so every name is in exactly one batch;
\* and the first request of a batch carries exactly the definitions of the
\* tools of that batch, in batch order.
C11_BatchesPartitionTools ==
  rtPc # "idle" =>
    /\ Flatten(rtIn.batches) = toolNames(rtIn.n)
    /\ \A b \in 1..Len(rtIn.batches) :
         Len(rtIn.batches[b]) >= 1 /\ Len(rtIn.batches[b]) <= batchSize
    /\ \A nm \in SeqSet(toolNames(rtIn.n)) :
         Cardinality({b \in 1..Len(rtIn.batches) : InSeq(nm, rtIn.batches[b])}) = 1
    /\ rtTurn.bi > 0 =>
         /\ rtTurn.bi \in 1..Len(rtIn.batches)
         /\ Len(rtTurn.toolDefinitions) = Len(rtIn.batches[rtTurn.bi])
         /\ \A i \in 1..Len(rtTurn.toolDefinitions) :
              rtTurn.toolDefinitions[i] = toolDefsByName(rtIn.batches[rtTurn.bi][i])
    /\ rtPc \in {"turn1", "turn2"} => rtTurn.bi = rtBi

\* Seven tools: the request of the second batch is in flight, carrying the
\* one definition that did not fit into the first batch of six.
C11_Witness ==
  /\ rtPc = "turn1"
  /\ rtIn.n = batchSize + 1
  /\ rtBi = 2
  /\ Len(rtIn.batches[1]) = batchSize
  /\ rtTurn.toolDefinitions = <<toolDefsByName("g")>>

(***************************************************************************)
(* Claims about tool-definition lists.                                     *)
(***************************************************************************)

\* The names of a list, in order, without the blank ones and without
\* repetitions: what one entry per name, first occurrence first, comes to.
RECURSIVE FirstOccurrences(_)
FirstOccurrences(defs) ==
  IF defs = <<>> THEN <<>>
  ELSE LET rest == SelectSeq(Tail(defs), LAMBDA d : d.name # defs[1].name)
       IN IF defs[1].name = "" THEN FirstOccurrences(rest)
          ELSE <<defs[1]>> \o FirstOccurrences(rest)

\* C12 as stated: every consumer works on the list with one entry per name,
\* the first occurrence winning and the order kept, and every count it
\* reports is the length of that list.
C12_EveryConsumerSeesDedupedList ==
  (/\ tdOut.by \in {"fetch", "capturedTools", "realTools", "toolsExec"}
   /\ \A i \in 1..Len(tdDefs) : tdDefs[i].name # "") =>
    /\ tdOut.defs = FirstOccurrences(tdDefs)
    /\ tdOut.counts = {Len(FirstOccurrences(tdDefs))}
    /\ ~tdOut.truncated

(***************************************************************************)
(* Claims about the strict-schema validator.                               *)
(***************************************************************************)

WalkedKeywords == Keywords \ {"patternProperties"}

\* The schema objects reachable from the root through the walked keywords.
RECURSIVE ReachableFrom(_, _)
ReachableFrom(h, seen) ==
  LET more == seen \cup {h[n].ref : n \in {m \in seen : h[m].kw \in WalkedKeywords}}
  IN IF more = seen THEN seen ELSE ReachableFrom(h, more)

\* Object-typed or with properties, and without additionalProperties: false
\* or with a declared property key that required omits.
Violating(s) ==
  /\ s.type = "object" \/ s.properties # "absent"
  /\ s.additionalProperties # "false" \/ (s.properties = "k" /\ s.required # "k")

\* Paths with one element per keyword: "items" is followed by no key or index.
Hops(path) == SelectSeq(path, LAMBDA x : x \in Keywords)

RECURSIVE TargetOf(_, _, _)
TargetOf(h, ref, hops) ==
  IF hops = <<>> THEN ref ELSE TargetOf(h, h[ref].ref, Tail(hops))

\* C13 as stated: every violating subschema reachable from the root has an
\* issue, and a schema all of whose reachable subschemas comply has none.
C13_EveryReachableViolationReported ==
  ssIn # <<>> =>
    /\ \A n \in ReachableFrom(ssIn, {1}) :
         Violating(ssIn[n]) =>
           \E i \in 1..Len(ssOut) : TargetOf(ssIn, 1, Hops(ssOut[i].path)) = n
    /\ (\A n \in ReachableFrom(ssIn, {1}) : ~Violating(ssIn[n])) => ssOut = <<>>

\* What the validator holds against a schema object: object-typed or with
\* properties, and no additionalProperties: false, or no required array, or a
\* declared property key that required omits.
Flagged(s) ==
  /\ s.type = "object" \/ s.properties # "absent"
  /\ \/ s.additionalProperties # "false"
     \/ s.required = "absent"
     \/ s.properties = "k" /\ s.required # "k"

\* The depth at which the validator is called for the object n hops below
\* the root: an array of subschemas is a level of its own.
RECURSIVE DepthOf(_, _, _)
DepthOf(h, ref, hops) ==
  IF hops = <<>> THEN 0
  ELSE (IF hops[1] \in ArrayKeywords THEN 2 ELSE 1) + DepthOf(h, h[ref].ref, Tail(hops))

\* The keyword sequences that lead from the root along walked keywords to
\* depth maxDepth at most.
RECURSIVE WalksFrom(_, _, _, _)
WalksFrom(h, ref, hops, d) ==
  IF d > maxDepth THEN {}
  ELSE {hops} \cup
       (IF h[ref].kw \in WalkedKeywords
          THEN WalksFrom(h, h[ref].ref, Append(hops, h[ref].kw),
                         d + (IF h[ref].kw \in ArrayKeywords THEN 2 ELSE 1))
          ELSE {})

\* C13 (amended): the validator's issues are exactly about the flagged
\* subschemas that a walk from the root along properties, items, prefixItems,
\* not, if, then, else, anyOf, oneOf, allOf, $defs and definitions meets at
\* depth 50 at most: each such visit has an issue with its path, every issue is
\* about such a visit, so a schema without a flagged subschema within that
\* depth has none; on a schema that contains itself the walk stops below
\* depth 50, with at most three issues per level.
C13_FlaggedWithinDepthReported ==
  ssIn # <<>> =>
    LET walks == WalksFrom(ssIn, 1, <<>>, 0)
    IN /\ \A w \in walks :
            Flagged(ssIn[TargetOf(ssIn, 1, w)]) <=>
              \E i \in 1..Len(ssOut) : Hops(ssOut[i].path) = w
       /\ \A i \in 1..Len(ssOut) : Hops(ssOut[i].path) \in walks
       /\ Len(ssOut) <= 3 * (maxDepth + 1)

\* A schema that contains itself under items and has no required array: one
\* issue per level, from the root down to depth 50.
C13_Witness ==
  /\ Len(ssIn) = 1
  /\ ssIn[1].kw = "items"
  /\ ssIn[1].type = "object"
  /\ ssIn[1].additionalProperties = "false"
  /\ ssIn[1].required = "absent"
  /\ Len(ssOut) = maxDepth + 1

\* The tools of the list whose parameters the validator finds an issue with.
FailingTools(tools) ==
  {i \in 1..Len(tools) :
     validateOpenAiStrictJsonSchema(tools[i].parameters, 1, <<>>, 0) # <<>>}

\* C14: when the validator finds an issue with a converted tool, the global
\* test responsesStrictSchema(capturedTools), and the test realToolsSchema of
\* an openai_responses provider, is recorded with ok = false and a detail that
\* starts with the first such tool and gives for each tool it names that
\* tool's first issue, and report.ok is false; the test passes only if no tool
\* has an issue (or the provider is of another type).
C14_SchemaViolationSurfaced ==
  ssTest.site # "none" =>
    LET failing == FailingTools(ssTest.tools)
        checked == ssTest.type = "openai_responses"
    IN /\ (checked /\ failing # {}) =>
            /\ ~ssTest.ok
            /\ ~ssTest.reportOk
            /\ ssTest.detail # <<>>
            /\ \A j \in 1..Len(ssTest.detail) :
                 /\ ssTest.detail[j].tool \in failing
                 /\ ssTest.detail[j].issue =
                      validateOpenAiStrictJsonSchema(
                        ssTest.tools[ssTest.detail[j].tool].parameters, 1, <<>>, 0)[1]
            /\ \A i \in failing : ssTest.detail[1].tool <= i
       /\ ssTest.ok <=> (~checked \/ failing = {})

\* The second tool of the list is the one with an issue, and the per-provider
\* test of an openai_responses provider failed on it.
C14_Witness ==
  /\ ssTest.site = "realToolsSchema"
  /\ ssTest.type = "openai_responses"
  /\ FailingTools(ssTest.tools) = {2}
  /\ ~ssTest.ok

(***************************************************************************)
(* Claims about schema samples.                                            *)
(***************************************************************************)

\* JSON.stringify accepts the value: no part of it contains itself.
RECURSIVE Serializable(_)
Serializable(v) == v.t # "self" /\ \A k \in DOMAIN v.kids : Serializable(v.kids[k])

\* How deep the value nests.
RECURSIVE Nesting(_)
Nesting(v) ==
  IF DOMAIN v.kids = {} THEN 0
  ELSE LET below == {Nesting(v.kids[k]) : k \in DOMAIN v.kids}
       IN 1 + (CHOOSE m \in below : \A x \in below : x <= m)

\* The sample of a property is what the claim says of its schema: a non-empty
\* string for type string, an integer >= 0 for type integer without minimum.
SampleFits(schema, v) ==
  /\ schema.type = "string" => v.t = "string" /\ v.n >= 1
  /\ (schema.type = "integer" /\ ~schema.hasMinimum) => v.t = "integer" /\ v.n >= 0

RequiredDeclared(s) ==
  {s.required[i] : i \in 1..Len(s.required)} \cap (IF s.hasProps THEN DOMAIN s.properties ELSE {})

IsPrefix(a, b) == Len(a) <= Len(b) /\ a = SubSeq(b, 1, Len(a))

VersionedUrl(provider) ==
  IF provider.type = "gemini_ai_studio" THEN Url("v1beta/models") ELSE Url("v1/models")

\* C16: the candidates are requested in the order unversioned, versioned,
\* each at most once, one response per request; a 404 from the unversioned
\* URL is followed by the request of the versioned candidate, if there is
\* one; and when the unversioned URL answered 404 and the versioned one 200
\* with a list that parses to models, discovery returns those models, tried
\* holding both URLs in order.
C16_FallbackAfter404Succeeds ==
  /\ IsPrefix(md.tried, md.urls)
  /\ IsPrefix(md.urls, <<Url("models"), VersionedUrl(md.provider)>>)
  /\ Len(md.responses) = Len(md.tried) - (IF mdPc = "fetch" THEN 1 ELSE 0)
  /\ (md.responses # <<>> /\ md.responses[1].status = 404 /\ Len(md.urls) = 2) =>
       Len(md.tried) = 2
  /\ (/\ mdPc = "done"
      /\ Len(md.responses) = 2
      /\ md.responses[1].status = 404
      /\ md.responses[2].status = 200
      /\ parseModelIds(md.responses[2].json) # <<>>) =>
       /\ mdResult.ok
       /\ mdResult.models = parseModelIds(md.responses[2].json)
       /\ md.tried = <<Url("models"), VersionedUrl(md.provider)>>

\* A Gemini provider: models answered 404, v1beta/models answered with the
\* ids m1, m1, and discovery returned m1.
C16_Witness ==
  /\ mdPc = "done"
  /\ md.provider.type = "gemini_ai_studio"
  /\ md.tried = <<Url("models"), Url("v1beta/models")>>
  /\ md.responses[1].status = 404
  /\ md.responses[2].status = 200
  /\ md.responses[2].json.ids = <<"m1", "m1">>
  /\ mdResult.ok
  /\ mdResult.models = <<"m1">>

\* C17 as stated: after a non-2xx response from the first candidate the
\* alternate URL is tried, and an upstream HTTP error is the outcome only when
\* the alternate did not succeed either.
C17_AnyNon2xxRecovered ==
  (/\ mdPc = "done"
   /\ Len(md.urls) = 2
   /\ Len(md.responses) >= 1
   /\ md.responses[1].status \notin {0, 200}) =>
     /\ md.tried = md.urls
     /\ Len(md.responses) = 2
     /\ mdResult.error = "upstream http error" => md.responses[2].status \notin {0, 200}

\* C17 (amended): only a 404 is recovered.  After a 404 from the first
\* candidate the alternate URL, if there is one, is tried exactly once, and
\* the outcome is that of the alternate; a 404 from the last candidate ends in
\* a failure that carries no status.  Any other non-2xx response, from either
\* candidate, ends discovery at once with the upstream HTTP error of that
\* response (its status, an excerpt cut at 300 characters), no further URL
\* being tried; and an upstream HTTP error is surfaced in no other case.
C17_Only404Recovered ==
  mdPc = "done" /\ md.responses # <<>> =>
    LET n == Len(md.responses)
        last == md.responses[n]
    IN /\ \A j \in 1..(n - 1) : md.responses[j].status = 404
       /\ n <= Len(md.urls)
       /\ n = Len(md.tried)
       /\ last.status = 404 =>
            /\ n = Len(md.urls)
            /\ ~mdResult.ok /\ mdResult.error = "404 or no result" /\ mdResult.status = 0
       /\ last.status \notin {0, 200, 404} =>
            /\ ~mdResult.ok
            /\ mdResult.error = "upstream http error"
            /\ mdResult.status = last.status
            /\ mdResult.maxChars = maxChars
       /\ mdResult.error = "upstream http error" => last.status \notin {0, 200, 404}
       /\ mdResult.ok <=> (last.status = 200 /\ parseModelIds(last.json) # <<>>)

\* The first candidate of two answered 500: discovery ended with that error
\* and the alternate URL was never tried.
C17_Witness ==
  /\ mdPc = "done"
  /\ Len(md.urls) = 2
  /\ md.tried = <<Url("models")>>
  /\ md.responses[1].status = 500
  /\ mdResult.error = "upstream http error"
  /\ mdResult.status = 500

(***************************************************************************)
(* Claims about the model a provider is probed with.                       *)
(***************************************************************************)

\* The first entry of xs that is not empty once trimmed, "" if there is none.
FirstNonEmpty(xs) ==
  LET idx == {i \in 1..Len(xs) : normalizeString(xs[i]) # ""}
  IN IF idx = {} THEN ""
     ELSE normalizeString(xs[CHOOSE i \in idx : \A j \in idx : i <= j])

\* C18: the model of a provider is its default model, else its first
\* non-empty declared model, else the first non-empty model of the list
\* fetched (nothing when the fetch failed); when none is found the provider
\* gets a failed "model" test and no call is issued; and every call issued
\* carries the resolved, non-empty model.
C18_ModelResolvedInOrderOrNoCall ==
  pmPc \in {"calls", "done"} =>
    LET dm == normalizeString(pm.provider.defaultModel)
        declared == FirstNonEmpty(pm.provider.models)
        fetched == IF pm.fetchedOk THEN FirstNonEmpty(pm.fetched) ELSE ""
        expected == IF dm # "" THEN dm ELSE IF declared # "" THEN declared ELSE fetched
    IN /\ pm.model = expected
       /\ pm.model = "" =>
            /\ pmPc = "done"
            /\ pm.calls = <<>>
            /\ pm.tests[Len(pm.tests)] = [name |-> "model", ok |-> FALSE]
       /\ \A i \in 1..Len(pm.calls) : pm.calls[i].model # "" /\ pm.calls[i].model = pm.model

\* A provider with a blank default and the declared models "", " m2" was
\* probed with m2 although the list fetched was not empty.
C18_Witness ==
  /\ pmPc = "done"
  /\ pm.provider = [defaultModel |-> " ", models |-> <<"", " m2">>]
  /\ pm.fetchedOk /\ pm.fetched = <<"f1">>
  /\ pm.model = "m2"
  /\ Len(pm.calls) = Len(ProviderCalls)

(***************************************************************************)
(* Claims about the scratch directory.                                     *)
(***************************************************************************)

\* C19: once the scratch directory was created, the function neither returns
\* nor propagates before rmPathRecursive was attempted; whatever the removal
\* met, the result is that of the tool steps and an error propagated is that
\* of the try block.
C19_ScratchRemovalAttempted ==
  /\ (sc.created /\ scPc \in {"returned", "propagated"}) => sc.rmAttempts = 1
  /\ (scPc = "returned" /\ sc.workspace) =>
       /\ sc.thrown = "none" /\ sc.error = "none"
       /\ sc.ok <=> sc.failed = {}
  /\ scPc = "propagated" => sc.error = sc.thrown /\ sc.error \in {"ensureDir", "step"}

\* A tool step threw after the directory was created, the removal met a
\* failing stat, and the error of the step is what propagated.
C19_Witness ==
  /\ scPc = "propagated"
  /\ sc.created
  /\ sc.thrown = "step"
  /\ sc.rm = "stat throws"
  /\ sc.exists
  /\ sc.error = "step"

(***************************************************************************)
(* Claims about collectChatStream.                                         *)
(***************************************************************************)

\* The text, the nodes and the last stop_reason key of the first n chunks of
\* a stream made of `run` plain text chunks and then `tail`.
RECURSIVE TailText(_)
TailText(tail) ==
  IF tail = <<>> THEN <<>>
  ELSE (IF Head(tail).hasText THEN Head(tail).text ELSE <<>>) \o TailText(Tail(tail))

RECURSIVE TailNodes(_)
TailNodes(tail) ==
  IF tail = <<>> THEN <<>>
  ELSE (IF Head(tail).hasNodes THEN Head(tail).nodes ELSE <<>>) \o TailNodes(Tail(tail))

TextOfFirst(run, tail, n) ==
  [i \in 1..Min(run, n) |-> "a"] \o TailText(SubSeq(tail, 1, n - run))

NodesOfFirst(run, tail, n) == TailNodes(SubSeq(tail, 1, n - run))

StopOfFirst(run, tail, n) ==
  LET keyed == {i \in 1..(n - run) : i <= Len(tail) /\ tail[i].hasStop}
  IN IF keyed = {} THEN "null"
     ELSE tail[CHOOSE i \in keyed : \A j \in keyed : j <= i].stop_reason

\* The stream carries one stop reason, on its last chunk.
OneTerminalStop(tail) ==
  /\ tail # <<>>
  /\ tail[Len(tail)].hasStop /\ tail[Len(tail)].stop_reason # "null"
  /\ \A i \in 1..(Len(tail) - 1) : ~tail[i].hasStop \/ tail[i].stop_reason = "null"

\* C20 as stated: of every stream the text returned is the concatenation of
\* all chunks' text, the nodes that of all chunks' nodes, and, the stream
\* carrying one terminal stop reason, stop_reason is that one and not null.
C20_WholeStreamCollected ==
  ccPc = "returned" =>
    LET all == cc.run + Len(cc.tail)
    IN /\ cc.text = TextOfFirst(cc.run, cc.tail, all)
       /\ cc.nodes = NodesOfFirst(cc.run, cc.tail, all)
       /\ OneTerminalStop(cc.tail) =>
            cc.stop_reason = cc.tail[Len(cc.tail)].stop_reason /\ cc.stop_reason # "null"

\* C20 (amended): what is returned is collected from the first maxChunks
\* chunks only: the concatenation of their string texts in order, the flat
\* concatenation of their node arrays, and the value of the last stop_reason
\* key among them, null if none carries the key; so of a stream of at most
\* maxChunks chunks with one terminal stop reason everything is collected
\* and stop_reason is that reason.
C20_FirstMaxChunksCollected ==
  ccPc = "returned" =>
    LET all == cc.run + Len(cc.tail)
        n == Min(all, maxChunks)
    IN /\ cc.chunks = n
       /\ cc.text = TextOfFirst(cc.run, cc.tail, n)
       /\ cc.nodes = NodesOfFirst(cc.run, cc.tail, n)
       /\ cc.stop_reason = StopOfFirst(cc.run, cc.tail, n)
       /\ (all <= maxChunks /\ OneTerminalStop(cc.tail)) =>
            /\ cc.stop_reason = cc.tail[Len(cc.tail)].stop_reason
            /\ cc.text = TextOfFirst(cc.run, cc.tail, all)
            /\ cc.nodes = NodesOfFirst(cc.run, cc.tail, all)

\* A stream of maxChunks text chunks and then a chunk with text and the stop
\* reason end_turn: the last chunk was dropped, stop_reason is null.
C20_Witness ==
  /\ ccPc = "returned"
  /\ cc.run = maxChunks
  /\ Len(cc.tail) = 1
  /\ cc.tail[1].hasStop /\ cc.tail[1].stop_reason = "end_turn" /\ cc.tail[1].text = <<"b", "c">>
  /\ cc.chunks = maxChunks
  /\ Len(cc.text) = maxChunks
  /\ cc.stop_reason = "null"

(***************************************************************************)
(* Claims about the request path of a chat stream.                         *)
(***************************************************************************)

Count(calls, name) == Cardinality({i \in 1..Len(calls) : calls[i] = name})

C24_OnlyCapturedSetShared ==
  cs.fromCache = 0

\* C24 (amended): two structures carry state from one request to the next.
\* The last captured tool definitions are those of the latest request that
\* carried any (last write wins); and CONTEXT_CANVAS_CACHE holds what earlier
\* requests fetched: a request whose canvas is in the unexpired cache injects
\* it without fetching, and fetches only when it is not there.
C24_CapturedSetAndCanvasCacheShared ==
  /\ \A e \in CONTEXT_CANVAS_CACHE : e.by \in 1..csServed
  /\ cs.fromCache # 0 =>
       /\ cs.fromCache < cs.no
       /\ "contextCanvas" \in cs.injected
       /\ Count(cs.calls, "contextCanvas") = 0
  /\ (csPc = "contextCanvas" /\ cs.pages = 0 /\ Count(cs.calls, "contextCanvas") = 0) =>
       getCanvasFromCache_Miss(CONTEXT_CANVAS_CACHE, cs.req.canvasId)
         = {e \in CONTEXT_CANVAS_CACHE : e.id = cs.req.canvasId}
  /\ (cs.ep = "/chat-stream" /\ cs.req.toolDefs # 0 /\ "capture" \notin cs.failed) =>
       lastCaptured = cs.req.toolDefs
  /\ (cs.ep = "/chat-stream" /\ cs.req.toolDefs = 0 /\ cs.no = 1) => lastCaptured = 0

\* The second request carries the tool definitions 2 after the first carried
\* 1, and injects the canvas the first request fetched, without a fetch.
C24_Witness ==
  /\ csPc = "done"
  /\ cs.no = 2
  /\ cs.fromCache = 1
  /\ Count(cs.calls, "contextCanvas") = 0
  /\ "contextCanvas" \in cs.injected
  /\ lastCaptured = 2

C23_SubCallWithinOuterBudget ==
  dl.given > 0 => \A h \in dl.handed : h.ms <= Min(dl.given, 20000)

\* From an outer deadline of 2000 ms on, no floor exceeds the budget.
SubCallWithinOuterBudgetFrom2000 ==
  dl.given >= 2000 => \A h \in dl.handed : h.ms <= Min(dl.given, 20000)

\* Whatever the caller passes, no sub-call is handed more than 20000 ms.
SubCallAtMost20000 ==
  \A h \in dl.handed : h.ms <= 20000

(***************************************************************************)
(* Claims about the tool definitions of a self-test run                    *)
(***************************************************************************)

\* The global phase of a run is over
GlobalPhaseDone == gpPc = "idle" /\ gp.run > 0

DoneEvents(events) == {i \in 1..Len(events) : events[i].type = "done"}

\* C26: a run emits exactly one done event; it carries the report the run
\* returns and every log event of the run comes before it; an exception of the
\* listener never ends the run, which goes on to its done event.
C26_OneDoneEventAfterAllLogs ==
  /\ ev.outcome # "threw"
  /\ evPc = "running" => DoneEvents(ev.events) = {}
  /\ (evPc = "idle" /\ ev.run > 0) =>
       /\ ev.outcome = "returned"
       /\ DoneEvents(ev.events) = {Len(ev.events)}
       /\ ev.events[Len(ev.events)].report = ev.report
       /\ ev.report.finished
       /\ \A i \in 1..(Len(ev.events) - 1) : ev.events[i].type = "log"
       /\ Len(ev.events) = ev.steps + 3

\* A run in which the listener threw on a log event and a step failed ended
\* with its done event posted to the panel
C26_Witness ==
  /\ evPc = "idle"
  /\ ev.outcome = "returned"
  /\ ev.swallowed = 1
  /\ ev.steps = MaxLogged
  /\ ~ev.report.ok
  /\ Len(ev.posts) = Len(ev.events) - 1
  /\ ev.posts[Len(ev.posts)] = [type |-> "selfTestDone", report |-> ev.report]

(***************************************************************************)
(* Claims about findToolsModelDeep                                         *)
(***************************************************************************)

Times(seq, v) == Cardinality({i \in 1..Len(seq) : seq[i] = v})

\* The search ends on every graph, within the depth cap, and returns null or
\* a candidate.
SearchEndsWithNullOrCandidate ==
  /\ ft.out.result # "running"
  /\ ft.out.result # "null" => ft.out.result \in ft.cands
  /\ \A i \in 1..Len(ft.out.expanded) : ft.out.expanded[i].d < ft.depthCap

\* The start object is not marked as seen: it is taken from the queue at most
\* twice, every other object at most once, and at most maxNodes + 1 entries
\* are put into the queue.
SearchVisitsWithinCaps ==
  /\ \A o \in Objects : Times(ft.out.dequeued, o) <= (IF o = ft.root THEN 2 ELSE 1)
  /\ ft.out.enqueued <= ft.maxNodes + 1
  /\ Cardinality(ft.out.seen) <= ft.maxNodes

\* C28: findToolsModelDeep terminates on every object graph, cyclic ones
\* included; it visits each object at most once, enqueues at most maxNodes
\* objects, never expands an object at depth >= maxDepth, and returns null or
\* an object that has both functions.
C28_EachObjectOnceWithinCaps ==
  /\ ft.out.result # "running"
  /\ \A o \in Objects : Times(ft.out.dequeued, o) <= 1
  /\ ft.out.enqueued <= ft.maxNodes
  /\ \A i \in 1..Len(ft.out.expanded) : ft.out.expanded[i].d < ft.depthCap
  /\ ft.out.result # "null" => ft.out.result \in ft.cands

(***************************************************************************)
(* Claims about the handlers of the config panel                           *)
(***************************************************************************)

\* The flag, the controller and the run agree: a run is in progress exactly
\* when the flag is set and a controller exists.
PanelFlagMatchesRun ==
  /\ selfTestRunning = (stPc # "idle")
  /\ selfTestRunning = (selfTestController # "null")

\* What a step of the panel may do to the run
PanelStep ==
  /\ (selfTestRunning /\ selfTestRunning') =>
       /\ selfTestController' = selfTestController
            \/ (selfTestController = "live" /\ selfTestController' = "aborted")
       /\ stRun'.providers = stRun.providers
       /\ Len(report'.global) >= Len(report.global)
       /\ Len(report'.providers) >= Len(report.providers)
  /\ (~selfTestRunning /\ ~selfTestRunning') =>
       /\ selfTestController' = "null"
       /\ stRun' = stRun
       /\ report' = report
  /\ (~selfTestRunning /\ selfTestRunning') =>
       /\ selfTestController' = "live"
       /\ stPc' # "idle"
       /\ ~stRun'.aborted
  /\ (selfTestRunning /\ ~selfTestRunning') =>
       /\ selfTestController' = "null"
       /\ stPc' = "idle"

\* C29: at most one run of the self test is in progress under any
\* interleaving of runSelfTest and cancelSelfTest messages: a runSelfTest
\* message during a run starts no run and leaves the AbortController in
\* place, cancelSelfTest without a run aborts nothing, and when a run ends
\* the flag and the controller are cleared, so that the next runSelfTest
\* message starts a run.
C29_OneSelfTestRunAtATime ==
  []PanelFlagMatchesRun /\ [][PanelStep]_vars

\* During a run that was canceled, a runSelfTest message was refused
C29_Witness ==
  /\ selfTestRunning
  /\ selfTestController = "aborted"
  /\ stRun.aborted
  /\ Len(report.providers) >= 1
  /\ "Self Test already running." \in panel.status
  /\ "Self Test canceled." \in panel.status

(***************************************************************************)
(* Claims about endpoints listed in telemetry.disabledEndpoints            *)
(***************************************************************************)

\* A handler has returned for an endpoint of telemetry.disabledEndpoints,
\* with the runtime enabled
TelemetryDisabledCall ==
  /\ ShimReturned
  /\ runtimeEnabled
  /\ shimCall.ep # ""
  /\ isTelemetryDisabled(cfg, shimCall.ep)

\* C30: with the runtime enabled, a request to an endpoint listed in
\* telemetry.disabledEndpoints is answered with a stub by both handlers,
\* whatever rule routes the endpoint: the transform of {} by
\* maybeHandleCallApi, an empty stream by maybeHandleCallApiStream; it is
\* not passed on to the official service and reaches no BYOK backend.
C30_TelemetryDisabledAlwaysStubbed ==
  TelemetryDisabledCall =>
    /\ shimCall.result = IF shimCall.handler = "callApi" THEN "transform_of_empty"
                         ELSE "empty_stream"
    /\ shimCall.adapterCalls = 0
    /\ shimCall.officialCalls = 0

\* What holds of such a request: no BYOK adapter and no official-context
\* request is made for it; maybeHandleCallApi answers with the transform of {}
\* unless the transform throws, and maybeHandleCallApiStream answers with an
\* empty stream when the rule of the endpoint is byok or disabled.
TelemetryDisabledNeverReachesByok ==
  TelemetryDisabledCall =>
    /\ shimCall.adapterCalls = 0
    /\ shimCall.officialCalls = 0
    /\ (shimCall.handler = "callApi" /\ ~shimCall.transformThrows) =>
         shimCall.result = "transform_of_empty"
    /\ (shimCall.handler = "callApi" /\ shimCall.transformThrows) =>
         shimCall.result = "undefined"
    /\ shimCall.handler = "callApiStream" =>
         shimCall.result = IF cfg.rules[shimCall.ep] \in {"byok", "disabled"}
                             THEN "empty_stream" ELSE "undefined"

(***************************************************************************)
(* Claims about byok routes of endpoints a handler does not implement      *)
(***************************************************************************)

\* A handler has returned for an endpoint whose rule is byok and which it
\* does not implement, with the runtime enabled
ByokUnimplementedCall ==
  /\ ShimReturned
  /\ runtimeEnabled
  /\ shimCall.ep # ""
  /\ cfg.rules[shimCall.ep] = "byok"
  /\ shimCall.ep \notin (IF shimCall.handler = "callApi" THEN CallApiByokEndpoints
                         ELSE CallApiStreamByokEndpoints)

\* C31 as stated: under a byok route an endpoint the handler does not
\* implement gets undefined from both handlers, and no adapter is called.
C31_UnimplementedByokUndefined ==
  ByokUnimplementedCall =>
    /\ shimCall.result = "undefined"
    /\ shimCall.adapterCalls = 0

\* C31 (amended): under a byok route an endpoint the handler does not
\* implement reaches no provider adapter; the handler returns undefined,
\* except for an endpoint of telemetry.disabledEndpoints, which gets the
\* telemetry stub (the transform of {}, an empty stream) instead.
C31_UnimplementedByokNoAdapter ==
  ByokUnimplementedCall =>
    /\ shimCall.adapterCalls = 0
    /\ shimCall.officialCalls = 0
    /\ shimCall.result =
         IF ~isTelemetryDisabled(cfg, shimCall.ep) THEN "undefined"
         ELSE IF shimCall.handler = "callApi"
           THEN TelemetryStubResult(shimCall.transformThrows)
         ELSE "empty_stream"

\* maybeHandleCallApi returned undefined for /chat-stream under a byok rule
C31_Witness ==
  /\ ByokUnimplementedCall
  /\ shimCall.handler = "callApi"
  /\ shimCall.ep = "/chat-stream"
  /\ ~isTelemetryDisabled(cfg, shimCall.ep)
  /\ shimCall.result = "undefined"

(***************************************************************************)
(* Claims about /get-models and mergeModels                                *)
(***************************************************************************)

\* The official get-models fetch of a byok-routed /get-models call failed
\* and the caller's transform does not throw
GetModelsFetchFailed ==
  /\ gm.called = "getModels"
  /\ gm.upstream.kind \in FetchFailures
  /\ ~gm.transformThrows

\* C32: when the official get-models fetch fails, the byok-routed
\* /get-models call still answers: with the local list, which holds exactly
\* the BYOK models of the configuration, in their order, and whose default is
\* the preferred BYOK model when the list has it, else the first BYOK model,
\* and "unknown" when there is none.
C32_FetchFailureAnswersLocalModels ==
  GetModelsFetchFailed =>
    /\ gm.result.kind = "local"
    /\ NamesOf(gm.result.models) = gm.byokModels
    /\ gm.result.default_model =
         IF gm.preferredByok # "" /\ gm.preferredByok \in SeqRange(gm.byokModels)
           THEN gm.preferredByok
         ELSE IF Len(gm.byokModels) > 0 /\ gm.byokModels[1] # ""
           THEN gm.byokModels[1]
         ELSE "unknown"

\* The fetch timed out, the configuration has two BYOK models and prefers
\* the second
C32_Witness ==
  /\ GetModelsFetchFailed
  /\ gm.upstream.kind = "timeout"
  /\ gm.byokModels = <<"d", "m2">>
  /\ gm.preferredByok = "m2"
  /\ gm.result.default_model = "m2"

\* How often a name occurs among the models from position from on
TimesFrom(models, name, from) ==
  Cardinality({i \in from..Len(models) : models[i].name = name})

\* C39: the merged list begins with the upstream models as they were; after
\* them comes each BYOK name that is non-empty and not an upstream name,
\* exactly once, and nothing else; merging the same names into the result
\* once more leaves the list as it is.
C39_MergeKeepsAppendsOnceIdempotent ==
  gm.called = "mergeModels" =>
    LET up == gm.upstream.models
        out == gm.result.models
        upNames == SeqRange(NamesOf(up))
    IN /\ IsPrefix(up, out)
       /\ \A n \in ModelIds :
            TimesFrom(out, n, Len(up) + 1) =
              IF n # "" /\ n \in SeqRange(gm.byokModels) /\ n \notin upNames
              THEN 1 ELSE 0
       /\ \A i \in (Len(up) + 1)..Len(out) : out[i] = makeModelInfo(out[i].name)
       /\ gm.again = out

\* An upstream list with "d", the BYOK names "d" and "m2": only "m2" is added
C39_Witness ==
  /\ gm.called = "mergeModels"
  /\ NamesOf(gm.upstream.models) = <<"d">>
  /\ gm.byokModels = <<"d", "m2">>
  /\ NamesOf(gm.result.models) = <<"d", "m2">>
  /\ gm.again = gm.result.models

(***************************************************************************)
(* Claims about the tool calls of selfTestToolsModelExec                   *)
(***************************************************************************)

\* C33: a call that checkToolCallSafe does not approve never reaches
\* callTool: when checkToolCallSafe answers falsy or throws, callTool is not
\* called and the result is ok=false with blocked_by_policy or
\* checkToolCallSafe failed; under an aborted signal neither is called.
C33_UnapprovedCallNeverExecuted ==
  LET c == te.last IN
  (c.name # "" /\ ~c.skipped) =>
    /\ c.safe \in {"falsy", "throws"} /\ ~c.aborted =>
         /\ c.callToolCalls = 0
         /\ ~c.thrown /\ ~c.ok
         /\ c.detail = IF c.safe = "falsy" THEN "blocked_by_policy"
                       ELSE "checkToolCallSafe failed"
    /\ c.aborted => c.checkCalls = 0 /\ c.callToolCalls = 0

\* checkToolCallSafe answered falsy for a captured tool
C33_Witness ==
  /\ te.last.name = "view"
  /\ te.last.safe = "falsy"
  /\ te.last.checkCalls = 1
  /\ te.last.detail = "blocked_by_policy"

\* A recorded success stays, and the success of the call just made is
\* what the record holds
ResultsStep ==
  /\ \A n \in DOMAIN te.results :
       te.results[n].has /\ te.results[n].ok =>
         te'.results[n].has /\ te'.results[n].ok
  /\ (te'.calls = te.calls + 1 /\ ~te'.last.skipped /\ ~te'.last.thrown /\ te'.last.ok) =>
       te'.results[te'.last.name] = [has |-> TRUE, ok |-> TRUE, detail |-> te'.last.detail]

\* C34: the result of a tool is monotone: a success once recorded is not
\* turned into a failure by a later failed call, and a later success
\* replaces an earlier failure.
C34_SuccessSticksAndOverwritesFailure == [][ResultsStep]_vars

\* The third call is a failed call of a tool whose success is on record: the
\* record is still the success
C34_Witness ==
  /\ te.calls = 3
  /\ te.last.name = "view"
  /\ ~te.last.ok /\ ~te.last.thrown /\ ~te.last.skipped
  /\ te.results["view"].has /\ te.results["view"].ok

\* C35: when selfTestToolsModelExec returns after its steps, toolResults has
\* an entry for each captured tool name and for nothing else; a tool that no
\* step executed has ok=false with "not executed"; and ok is true exactly
\* when no entry has ok=false.
C35_OneResultPerCapturedTool ==
  (tePc = "returned" /\ te.ran) =>
    /\ {n \in DOMAIN te.toolResults : te.toolResults[n].has} = te.toolNames
    /\ \A n \in te.toolNames \ te.marked :
         te.toolResults[n] = [has |-> TRUE, ok |-> FALSE, detail |-> "not executed"]
    /\ te.ok <=> (\A n \in te.toolNames : te.toolResults[n].ok)

\* Two captured tools, one executed with success and one never executed
C35_Witness ==
  /\ tePc = "returned" /\ te.ran
  /\ te.toolNames = {"view", "mcp-tool"}
  /\ te.toolResults["view"].ok
  /\ te.toolResults["mcp-tool"].detail = "not executed"
  /\ ~te.ok

(***************************************************************************)
(* Claims about the injections of official context                         *)
(***************************************************************************)

\* The injected nodes of an array, in their order
InjectedIn(items) ==
  LET RECURSIVE pick(_)
      pick(i) == IF i > Len(items) THEN <<>>
                 ELSE IF items[i].id \in InjectedIds
                   THEN <<items[i].id>> \o pick(i + 1)
                 ELSE pick(i + 1)
  IN pick(1)

\* The ids of the injections that succeeded, in the order canvas, external,
\* retrieval
ExpectedOrder ==
  (IF CANVAS_NODE_ID \in inj.succeeded THEN <<CANVAS_NODE_ID>> ELSE <<>>)
    \o (IF EXTERNAL_NODE_ID \in inj.succeeded THEN <<EXTERNAL_NODE_ID>> ELSE <<>>)
    \o (IF RETRIEVAL_NODE_ID \in inj.succeeded THEN <<RETRIEVAL_NODE_ID>> ELSE <<>>)

\* C36: after the three injections, whichever of them succeeded, their nodes
\* are in one array of the request, each once, in the order canvas (-22),
\* external (-21), retrieval (-20), and the retrieval node is the last node
\* of that array.
C36_InjectedOrderCanvasExternalRetrieval ==
  inPc = "done" =>
    /\ Cardinality(inj.targets) <= 1
    /\ \A a \in ArrayNames :
         InjectedIn(inj.req[a].items) =
           IF a \in inj.targets THEN ExpectedOrder ELSE <<>>
    /\ \A a \in inj.targets :
         RETRIEVAL_NODE_ID \in inj.succeeded =>
           inj.req[a].items[Len(inj.req[a].items)].id = RETRIEVAL_NODE_ID

\* All three succeeded on a request whose nodes array held a tool result
C36_Witness ==
  /\ inPc = "done"
  /\ inj.succeeded = InjectedIds
  /\ inj.targets = {"nodes"}
  /\ Len(inj.first["nodes"].items) = 1
  /\ InjectedIn(inj.req["nodes"].items) =
       <<CANVAS_NODE_ID, EXTERNAL_NODE_ID, RETRIEVAL_NODE_ID>>

\* C37: an injection that returns false leaves nodes, structured_request_nodes
\* and request_nodes as they were, and nothing is thrown to the caller.
C37_FalseLeavesRequestUnchanged ==
  (inj.step # "none" /\ ~inj.ret) =>
    /\ inj.req = inj.before
    /\ ~inj.raised

\* The search for external sources threw after the retrieval had injected
C37_Witness ==
  /\ inj.step = "external"
  /\ inj.outcome = "search throws"
  /\ ~inj.ret
  /\ RETRIEVAL_NODE_ID \in inj.succeeded
  /\ inj.req = inj.before

(***************************************************************************)
(* Claims about the cache of context canvases                              *)
(***************************************************************************)

\* C38: a canvas that comes from the cache comes from an entry whose
\* expiresAtMs is later than the time of the call; an entry that has expired
\* is gone after the first access to the cache at or after its expiry; and a
\* lookup makes at most three list requests.
C38_CacheServesOnlyUnexpired ==
  /\ cv.from = "cache" => cv.canvas # "" /\ cv.expiresAtMs > cv.at
  /\ canvasCache.present => canvasCache.expiresAtMs > cv.accessAt
  /\ cv.fetches <= 3

\* The second lookup comes after the entry expired: the entry is removed
\* and the lookup makes three list requests
C38_Witness ==
  /\ cv.no = 2
  /\ cvPc = "done"
  /\ cv.fetches = 3
  /\ cv.from = "none"
  /\ ~canvasCache.present
  /\ clock >= CONTEXT_CANVAS_CACHE_TTL_MS

(***************************************************************************)
(* Claims about the configuration the webview sends                        *)
(***************************************************************************)

\* C40: in every configuration the webview sends, each routing rule has a
\* non-empty mode, each rule whose mode is not byok has an empty providerId
\* and an empty model, and telemetry.disabledEndpoints is empty; each legacy
\* disabled endpoint of the configuration rendered before, whose rule was not
\* edited since, is a rule with mode disabled.
C40_SentConfigNormalized ==
  wv.sentType # "none" =>
    /\ \A ep \in PanelEndpoints :
         wv.sent.rules[ep].present =>
           /\ wv.sent.rules[ep].mode # ""
           /\ wv.sent.rules[ep].mode # "byok" =>
                wv.sent.rules[ep].providerId = "" /\ wv.sent.rules[ep].model = ""
    /\ wv.sent.disabledEndpoints = {}
    /\ \A ep \in wv.sentLegacy :
         wv.sent.rules[ep].present /\ wv.sent.rules[ep].mode = "disabled"

\* A configuration with a legacy disabled endpoint was rendered, the rule of
\* the other endpoint was edited twice, and the configuration was saved
C40_Witness ==
  /\ wv.sentType = "save"
  /\ wv.sentLegacy = {"/e1"}
  /\ wv.touched = {"/e2"}
  /\ wv.edits = 2
  /\ wv.sent.rules["/e1"].mode = "disabled"
  /\ wv.sent.rules["/e2"].mode = "byok"

====
